---- MODULE Spec2Model ----
(***************************************************************************)
(* Model of the portfolio site's client-side scripts:                      *)
(*   - src/script.js              the unified include loader, mountGiscus  *)
(*   - src/assets/js/deck-carousel.js   initAnyDecks / initDeckCarousel    *)
(*                                                                         *)
(* The host is a single-threaded event loop.  Every task (an event         *)
(* dispatch, the settling of a fetch or of a body read, a user action) is  *)
(* one action; the promise reactions and mutation-observer callbacks a     *)
(* task leaves behind are queued in `microtasks` and run, in order, before *)
(* the next task starts.                                                   *)
(***************************************************************************)
EXTENDS Integers, Sequences, FiniteSets, TLC

(* ------------------------------ bounds --------------------------------- *)

\* largest number of [data-include] placeholders on a page
MaxPlaceholders == 2
\* largest number of [data-deck-carousel] roots on a page
MaxRoots == 2
\* number of .deck-card elements of a populated carousel
MaxCards == 2
\* largest number of times the mobile-nav module body is evaluated
MaxModuleRuns == 2
\* largest number of nodes of a fetched fragment
MaxFragment == 3
\* largest number of submit events of the contact form
MaxSubmits == 2
\* txt.slice(0, 200)
SliceLimit == 200
\* largest number of characters of a generated timestamp
MaxStamp == 2
\* largest number of times the video modal is opened
MaxOpens == 2
\* largest number of .deck-card elements of the carousel whose index is followed
MaxDeckCards == 4
\* largest number of copies of the newsletter script on a page
MaxNewsScripts == 2
\* largest number of form.ml-block-form elements the page gets, one after another
MaxForms == 2
\* largest number of submit events of the newsletter form
MaxNewsSubmits == 2
\* largest number of giscus client scripts followed in #giscus_thread
MaxMounts == 2

(* ------------------------------ state ---------------------------------- *)

VARIABLES
    nodes,          \* number of [data-include] placeholders (script.js:530)
    blogHeader,     \* the placeholder with id "blog-header", 0 if none
    readyState,     \* "interactive" | "dclFired" | "complete"
    task,           \* per placeholder: position of its async task
    result,         \* per placeholder: how its fetch settled
    classes,        \* per placeholder: subset of {"is-loading","is-ready"}
    content,        \* per placeholder: what its innerHTML holds
    steps,          \* per placeholder: the steps its task has executed
    loader,         \* position of the DOMContentLoaded handler of the loader
    microtasks,     \* queue of pending microtasks
    dispatched,     \* number of 'includes:ready' events dispatched
    completionLog,  \* order of the calls made after Promise.all resolved
    delivered,      \* handlers the 'includes:ready' dispatch invoked
    giscus,         \* the #giscus_thread container
    roots,          \* per carousel root: where its markup comes from
    deckInited,     \* the WeakSet __deckInited
    deck,           \* per carousel root: listeners attached and init history
    navBound,       \* window.__navBound
    navSets,        \* sets of delegated mobile-nav listeners on document/window
    navRuns,        \* evaluations of the mobile-nav module body so far
    navEls,         \* which of #navToggle, #mobileMenu, #navBackdrop the navbar has
    navPresent,     \* the navbar has been injected
    nav,            \* aria-expanded, hidden classes and scroll lock
    navEvent,       \* the last event the mobile-nav handlers saw
    fragEl,         \* one placeholder: is its id blog-header, its data-title/-subtitle
    fragHtml,       \* the text of the response fetched for it
    fragText,       \* the html string assigned to el.innerHTML
    fragDom,        \* the children of the placeholder
    fragDone,       \* the try block of its task has run
    hung,           \* the placeholders whose fetch never settles
    cEls,           \* which of the contact form's elements the page has
    cLabel,         \* the submit button's textContent
    cDisabled,      \* the submit button's disabled property
    cBound,         \* the submit listener has been added
    cReady,         \* the contact form's DOMContentLoaded handler has run
    busy,           \* the handler's busy flag
    cFields,        \* the form's fields: "typed" or "reset"
    cSubmits,       \* submit events so far
    sub,            \* the submit handler calls that issued a request
    cStatus,        \* #form-status: text, colour, hidden and opacity-0 classes
    cTimers,        \* pending status timers: fade (5000 ms) and hide (500 ms)
    vEls,           \* which of #video-modal, #video-iframe, #video-fallback exist
    vReduced,       \* prefers-reduced-motion
    vTrigger,       \* the data-video attribute of the page's trigger
    vBound,         \* the video modal's listeners have been added
    vReady,         \* the video modal's DOMContentLoaded handler has run
    video,          \* iframe src, fallback href, modal hidden, scroll lock, last parse
    vOpens,         \* calls of open() so far
    cardCount,      \* cards.length of the carousel whose index is followed
    ixEls,          \* which of its optional .deck-nav--prev/--next, .deck-card__hit exist
    carousel,       \* current, lightboxIndex, lb.hidden, aria-hidden of each card
    ixOp,           \* the last thing done to it, and the indices before that
    nlScripts,      \* copies of the newsletter script on the page
    nlReady,        \* the newsletter script's DOMContentLoaded handlers have run
    nlDom,          \* is #mlb2-30606205 in the document, and which form is in it
    nlForms,        \* each form element: __mlBound and its submit listeners
    nlObs,          \* each copy's mutation observer and what it did
    nlSub           \* submit events of the form and what their handlers did

loaderVars == <<nodes, blogHeader, readyState, task, result, classes, content,
                steps, loader, microtasks, dispatched, completionLog,
                delivered, giscus>>
deckVars == <<roots, deckInited, deck>>
navVars == <<navBound, navSets, navRuns, navEls, navPresent, nav, navEvent>>
fragVars == <<fragEl, fragHtml, fragText, fragDom, fragDone>>
netVars == <<hung>>
contactVars == <<cEls, cLabel, cDisabled, cBound, cReady, busy, cFields, cSubmits,
                 sub, cStatus, cTimers>>
videoVars == <<vEls, vReduced, vTrigger, vBound, vReady, video, vOpens>>
indexVars == <<cardCount, ixEls, carousel, ixOp>>
newsVars == <<nlScripts, nlReady, nlDom, nlForms, nlObs, nlSub>>
auxVars == <<navVars, fragVars, netVars, contactVars, videoVars, indexVars, newsVars>>
vars == <<loaderVars, deckVars, auxVars>>

Placeholders == 1..nodes
Roots == 1..MaxRoots

(* --------------------------- event dispatch ---------------------------- *)

\* The listeners the two scripts register while they are evaluated.
Registered ==
    { [target |-> "document", type |-> "DOMContentLoaded", handler |-> "includeLoader"],
      [target |-> "document", type |-> "DOMContentLoaded", handler |-> "initAnyDecks"],
      [target |-> "window",   type |-> "load",             handler |-> "initAnyDecks"],
      [target |-> "window",   type |-> "includes:loaded",  handler |-> "initAnyDecks"],
      [target |-> "document", type |-> "includes:ready",   handler |-> "navNoop"] }

\* The event the loader constructs: new Event("includes:ready") has
\* bubbles = false, and it is dispatched on document.
IncludesEvent == [type |-> "includes:ready", target |-> "document", bubbles |-> FALSE]

\* Targets whose (non-capturing) listeners an event reaches.
Path(target, bubbles) ==
    IF target = "document"
    THEN IF bubbles THEN {"document", "window"} ELSE {"document"}
    ELSE {"window"}

\* Handlers run by dispatching event ev.
Invoked(ev) ==
    { l.handler : l \in { k \in Registered :
                            k.type = ev.type /\ k.target \in Path(ev.target, ev.bubbles) } }

(* ------------------------------ carousel ------------------------------- *)

\* Sub-elements initDeckCarousel looks up under a root (deck-carousel.js:37-47);
\* "hit" is the .deck-card__hit button of the cards.
SubElements == {"track", "hit", "prev", "next", "lb", "lbImg", "lbCaption",
                "lbClose", "lbPrev", "lbNext"}

\* Markup shapes of a root: which sub-elements exist and how many cards.
FullDeck == [els |-> SubElements, ncards |-> MaxCards]
ArrowsOnlyDeck == [els |-> {"track", "hit", "prev", "next"}, ncards |-> MaxCards]
EmptyDeck == [els |-> {}, ncards |-> 0]
DeckShapes == {FullDeck, ArrowsOnlyDeck, EmptyDeck}

\* The listeners initDeckCarousel attaches, in source order.  `el` is the
\* element the listener goes on; `guarded` says the code skips the attachment
\* when the element is missing (prevBtn && ..., if (!button) return,
\* if (!el) return) instead of dereferencing null.
BindSteps ==
    << [el |-> "window",  guarded |-> TRUE,  name |-> "winLoad"],
       [el |-> "window",  guarded |-> TRUE,  name |-> "winResize"],
       [el |-> "hit",     guarded |-> TRUE,  name |-> "hitClick"],
       [el |-> "hit",     guarded |-> TRUE,  name |-> "hitKeydown"],
       [el |-> "prev",    guarded |-> TRUE,  name |-> "prevClick"],
       [el |-> "next",    guarded |-> TRUE,  name |-> "nextClick"],
       [el |-> "root",    guarded |-> TRUE,  name |-> "rootKeydown"],
       [el |-> "lbClose", guarded |-> FALSE, name |-> "lbCloseClick"],
       [el |-> "lbPrev",  guarded |-> FALSE, name |-> "lbPrevClick"],
       [el |-> "lbNext",  guarded |-> FALSE, name |-> "lbNextClick"],
       [el |-> "lb",      guarded |-> FALSE, name |-> "lbClick"],
       [el |-> "lb",      guarded |-> FALSE, name |-> "lbKeydown"],
       [el |-> "track",   guarded |-> TRUE,  name |-> "trackSwipe"],
       [el |-> "lb",      guarded |-> TRUE,  name |-> "lbSwipe"] >>

ListenerNames == { BindSteps[i].name : i \in 1..Len(BindSteps) }
NoListeners == [n \in ListenerNames |-> 0]

\* Listeners a user action (a click, a key, a swipe) triggers: one action on
\* the element runs every listener attached for it.
UserListeners == ListenerNames \ {"winLoad", "winResize"}

\* Is element el there for a root of shape sh?
Has(sh, el) ==
    \/ el \in {"window", "root"}
    \/ el = "hit" /\ "hit" \in sh.els /\ sh.ncards > 0
    \/ el # "hit" /\ el \in sh.els

\* Attach the listeners of BindSteps from step i on.  A missing element at an
\* unguarded step is a TypeError: the listeners attached so far stay.
RECURSIVE Bind(_, _, _)
Bind(sh, lis, i) ==
    IF i > Len(BindSteps) THEN [raised |-> FALSE, lis |-> lis]
    ELSE LET s == BindSteps[i] IN
         IF Has(sh, s.el)
         THEN Bind(sh, [lis EXCEPT ![s.name] = @ + 1], i + 1)
         ELSE IF s.guarded THEN Bind(sh, lis, i + 1)
         ELSE [raised |-> TRUE, lis |-> lis]

\* State of a root nobody has touched.
FreshDeck == [calls |-> 0, applied |-> 0, completed |-> 0, raised |-> FALSE,
              lis |-> NoListeners]

\* initDeckCarousel(root) on a root whose markup has shape sh and whose
\* record is d.  `calls` counts the calls, `applied` those that got past the
\* early return, `completed` those that reached the first render().
InitDeckCarousel(sh, d) ==
    IF "track" \notin sh.els \/ sh.ncards = 0
    THEN [d EXCEPT !.calls = @ + 1, !.raised = FALSE]
    ELSE LET b == Bind(sh, d.lis, 1) IN
         [calls     |-> d.calls + 1,
          applied   |-> d.applied + 1,
          completed |-> IF b.raised THEN d.completed ELSE d.completed + 1,
          raised    |-> b.raised,
          lis       |-> b.lis]

\* Is root r an element of the document when the placeholders hold cont?
RootInDom(rs, r, cont) ==
    \/ rs[r].kind \in {"page", "shell"}
    \/ rs[r].kind = "fragment" /\ cont[rs[r].host] = "fragment"

\* The markup found under root r at that moment.
ShapeInDom(rs, r, cont) ==
    IF \/ rs[r].kind = "page"
       \/ rs[r].kind \in {"shell", "fragment"} /\ cont[rs[r].host] = "fragment"
    THEN rs[r].shape
    ELSE EmptyDeck

\* The guard of initAnyDecks: has el been handled already?
DeckSeen(inited, el) == el \in inited

\* initAnyDecks: forEach over the roots in document order.  An exception
\* thrown by initDeckCarousel leaves the forEach, so neither that root nor
\* the ones after it are added to __deckInited.
RECURSIVE InitAnyDecksFrom(_, _, _, _, _)
InitAnyDecksFrom(i, rs, cont, inited, d) ==
    IF i > MaxRoots THEN [inited |-> inited, deck |-> d]
    ELSE IF ~RootInDom(rs, i, cont) \/ DeckSeen(inited, i)
    THEN InitAnyDecksFrom(i + 1, rs, cont, inited, d)
    ELSE LET n == InitDeckCarousel(ShapeInDom(rs, i, cont), d[i]) IN
         IF n.raised
         THEN [inited |-> inited, deck |-> [d EXCEPT ![i] = n]]
         ELSE InitAnyDecksFrom(i + 1, rs, cont, inited \cup {i}, [d EXCEPT ![i] = n])

InitAnyDecks(rs, cont, inited, d) == InitAnyDecksFrom(1, rs, cont, inited, d)

\* Run initAnyDecks when it is among the handlers an event invoked.
DecksAfter(handlers, rs, cont, inited, d) ==
    IF "initAnyDecks" \in handlers
    THEN InitAnyDecks(rs, cont, inited, d)
    ELSE [inited |-> inited, deck |-> d]

(* ---------------------------- include loader --------------------------- *)

\* How a fetch can settle: a 2xx response, a non-2xx response (fetch still
\* resolves), or a rejection.
FetchResults == {"ok", "httpError", "networkError"}

\* Elements of a sequence.
Range(q) == { q[i] : i \in 1..Len(q) }

\* The part of q before the first t; all of q when t does not occur.
RECURSIVE Before(_, _)
Before(q, t) ==
    IF q = <<>> \/ Head(q) = t THEN <<>> ELSE <<Head(q)>> \o Before(Tail(q), t)

\* The statements of the try block after the body text is there
\* (script.js:537-556); the token replacement runs for #blog-header only.
TrySteps(isBlogHeader) ==
    (IF isBlogHeader THEN <<"substitute">> ELSE <<>>) \o <<"inject", "scripts", "year">>

\* Statements that can raise for some fragment.
ThrowPoints(isBlogHeader) == Range(TrySteps(isBlogHeader)) \ {"year"}

\* Variant of Continuation with the class update at the end of the try block
\* instead of in a finally block.
ContinuationNoFinally(isBlogHeader, rejected, throwAt) ==
    IF rejected THEN <<"catch">>
    ELSE Before(TrySteps(isBlogHeader), throwAt)
         \o (IF throwAt = "none" THEN <<"ready">> ELSE <<"catch">>)

\* The steps a task runs once its awaits are over: the try block up to the
\* statement that throws (if one does), the catch block after a throw or a
\* rejected await, and the finally block.
Continuation(isBlogHeader, rejected, throwAt) ==
    IF rejected THEN <<"catch", "ready">>
    ELSE Before(TrySteps(isBlogHeader), throwAt)
         \o (IF throwAt = "none" THEN <<>> ELSE <<"catch">>)
         \o <<"ready">>

\* What el.innerHTML = html leaves in the placeholder: the text of the
\* response, whatever its status.
Injected(res) == IF res = "ok" THEN "fragment" ELSE "errorBody"

\* The finally block (script.js:560-563).
FinallyClasses(c) == (c \ {"is-loading"}) \cup {"is-ready"}

\* The placeholder's classes after a task body that ran the steps `ran`.
ClassesAfter(c, ran) == IF "ready" \in Range(ran) THEN FinallyClasses(c) ELSE c

\* Variant of TaskPromise without the catch block: an exception rejects the
\* promise of the task.
TaskPromiseUncaught(ran) == IF "catch" \in Range(ran) THEN "rejected" ELSE "done"

\* How the promise of a task settles: the catch block swallows every
\* exception of the try block, so the async function returns normally.
TaskPromise(ran) == "done"

\* Variant of AllSettled that resolves with the first task (Promise.race).
AnySettled(t) == DOMAIN t = {} \/ \E p \in DOMAIN t : t[p] = "done"

\* Promise.all over the tasks: resolved when every task has.
AllSettled(t) == \A p \in DOMAIN t : t[p] = "done"

\* A childList mutation under document.documentElement queues the observer's
\* callback, once per batch of mutations.
QueueMutation(q) ==
    IF "mutationObserver" \in Range(q) THEN q ELSE Append(q, "mutationObserver")

\* The reaction of the handler's await on Promise.all.
QueueCompletion(q, t, l) ==
    IF l = "awaiting" /\ AllSettled(t) THEN Append(q, "loaderContinue") ELSE q

\* mountGiscus (script.js:507-522).
MountGiscus(g) ==
    IF ~g.container \/ g.iframe THEN g ELSE [g EXCEPT !.scripts = @ + 1]

\* Variant of CompletionSteps that dispatches the event before mounting.
CompletionStepsSignalFirst == <<"dispatchEvent", "mountGiscus">>

\* The calls the handler makes once Promise.all has resolved, in source order
\* (script.js:566-570).
CompletionSteps == <<"mountGiscus", "dispatchEvent">>

RECURSIVE RunCompletion(_, _)
RunCompletion(st, i) ==
    IF i > Len(CompletionSteps) THEN st
    ELSE RunCompletion(
           IF CompletionSteps[i] = "mountGiscus"
           THEN [st EXCEPT !.giscus = MountGiscus(@),
                           !.log = Append(@, [call |-> "mountGiscus",
                                              dispatched |-> st.dispatched])]
           ELSE [st EXCEPT !.dispatched = @ + 1,
                           !.delivered = @ \cup Invoked(IncludesEvent),
                           !.log = Append(@, [call |-> "dispatchEvent",
                                              dispatched |-> st.dispatched])],
           i + 1)

(* ----------------------- features at rest ------------------------------ *)

\* The mobile nav as the navbar markup ships it: menu closed.
NavClosed == [expanded |-> FALSE, menuHidden |-> TRUE, backdropHidden |-> TRUE,
              lock |-> FALSE]

\* A page on which the mobile-nav module is not looked at.
NavQuiet ==
    /\ navBound = FALSE
    /\ navSets = 0
    /\ navRuns = 0
    /\ navEls = {}
    /\ navPresent = FALSE
    /\ nav = NavClosed
    /\ navEvent = [kind |-> "none", sets |-> 0, changes |-> 0]

\* No fragment is looked at in detail.
FragQuiet ==
    /\ fragEl = [isBlogHeader |-> FALSE, title |-> <<"absent">>, subtitle |-> <<"absent">>]
    /\ fragHtml = <<>>
    /\ fragText = <<>>
    /\ fragDom = <<>>
    /\ fragDone = FALSE

\* Every fetch settles.
NetQuiet == hung = {}

\* #form-status as the markup ships it: empty and hidden.
NoStatus == [msg |-> "none", detail |-> [kind |-> "none", len |-> 0], ok |-> FALSE,
             hidden |-> TRUE, faded |-> FALSE]

\* A page without a contact form.
ContactQuiet ==
    /\ cEls = {}
    /\ cLabel = ""
    /\ cDisabled = FALSE
    /\ cBound = FALSE
    /\ cReady = FALSE
    /\ busy = FALSE
    /\ cFields = "typed"
    /\ cSubmits = 0
    /\ sub = <<>>
    /\ cStatus = NoStatus
    /\ cTimers = [fade |-> 0, hide |-> 0]

\* A page without a video modal.
VideoQuiet ==
    /\ vEls = {}
    /\ vReduced = FALSE
    /\ vTrigger = <<>>
    /\ vBound = FALSE
    /\ vReady = FALSE
    /\ video = [src |-> [form |-> "empty", text |-> <<>>, id |-> <<>>, start |-> 0,
                         autoplay |-> 0],
                href |-> [form |-> "empty", text |-> <<>>, id |-> <<>>, start |-> 0,
                          autoplay |-> 0],
                hidden |-> TRUE, lock |-> FALSE,
                parsed |-> [ok |-> FALSE, id |-> <<>>, start |-> 0]]
    /\ vOpens = 0

\* A page without the newsletter script.
NewsQuiet ==
    /\ nlScripts = 0
    /\ nlReady = FALSE
    /\ nlDom = [root |-> FALSE, form |-> 0]
    /\ nlForms = <<>>
    /\ nlObs = <<>>
    /\ nlSub = [submits |-> 0, runs |-> 0, invalid |-> FALSE, disabled |-> FALSE,
                requests |-> 0, success |-> FALSE]

\* A page whose carousel index nobody follows.
IndexQuiet ==
    /\ cardCount = 0
    /\ ixEls = {}
    /\ carousel = [current |-> 0, lightboxIndex |-> 0, lbHidden |-> TRUE, aria |-> <<>>]
    /\ ixOp = [kind |-> "none", current |-> 0, lightboxIndex |-> 0, lbHidden |-> TRUE]

(* ------------------------------- Init ---------------------------------- *)

\* Where the markup of root r can come from on a page of n placeholders: no
\* such root; all of it in the page; the root in the page and its
\* sub-elements in the fragment of a placeholder ("shell"); root and
\* sub-elements in the fragment.  Root r is hosted by placeholder r, or by
\* the last one.
HostOf(r, n) == IF r <= n THEN r ELSE n

RootDescs(r, n) ==
    {[kind |-> "none", host |-> 0, shape |-> EmptyDeck]}
    \cup {[kind |-> "page", host |-> 0, shape |-> s] : s \in DeckShapes}
    \cup {[kind |-> k, host |-> HostOf(r, n), shape |-> s] :
            k \in IF n > 0 THEN {"shell", "fragment"} ELSE {},
            s \in DeckShapes \ {EmptyDeck}}

Init ==
    /\ nodes \in 0..MaxPlaceholders
    /\ blogHeader \in {0} \cup ({1} \cap (1..nodes))
    /\ readyState = "interactive"
    /\ task = [p \in 1..nodes |-> "pending"]
    /\ result = [p \in 1..nodes |-> "none"]
    /\ classes = [p \in 1..nodes |-> {}]
    /\ content = [p \in 1..nodes |-> "original"]
    /\ steps = [p \in 1..nodes |-> <<>>]
    /\ loader = "idle"
    /\ microtasks = <<>>
    /\ dispatched = 0
    /\ completionLog = <<>>
    /\ delivered = {}
    /\ giscus \in {[container |-> c, scripts |-> 0, iframe |-> FALSE] : c \in BOOLEAN}
    /\ roots \in [Roots -> UNION {RootDescs(r, nodes) : r \in Roots}]
    /\ \A r \in Roots : roots[r] \in RootDescs(r, nodes)
    /\ \A r \in Roots : r > 1 /\ roots[r].kind # "none" => roots[r - 1].kind # "none"
    /\ deckInited = {}
    /\ deck = [r \in Roots |-> FreshDeck]
    /\ NavQuiet
    /\ FragQuiet
    /\ NetQuiet
    /\ ContactQuiet
    /\ VideoQuiet
    /\ IndexQuiet
    /\ NewsQuiet

(* ------------------------------ actions -------------------------------- *)

\* Variant of FirstSteps that fetches the url twice.
FirstStepsFetchTwice == <<"loading", "fetch", "fetch">>

\* What one task does before its first await: mark loading, call fetch(url).
FirstSteps == <<"loading", "fetch">>

\* Variant of Issued in which each task is awaited before the next starts.
IssuedFirstOnly(n) == (1..n) \cap {1}

\* The placeholders whose task has run up to its first await when the handler
\* reaches await Promise.all: map() calls the async callback for each node.
Issued(n) == 1..n

\* The document fires DOMContentLoaded: the loader's handler runs up to its
\* await (every placeholder marked loading, every fetch issued), and the
\* carousel's initAnyDecks runs.
DOMContentLoaded ==
    /\ readyState = "interactive"
    /\ microtasks = <<>>
    /\ LET handlers == Invoked([type |-> "DOMContentLoaded", target |-> "document",
                                bubbles |-> TRUE])
           runs == "includeLoader" \in handlers
           d == DecksAfter(handlers, roots, content, deckInited, deck)
       IN /\ readyState' = "dclFired"
          /\ task' = IF runs
                     THEN [p \in Placeholders |->
                             IF p \in Issued(nodes) THEN "fetching" ELSE task[p]]
                     ELSE task
          /\ classes' = IF runs
                        THEN [p \in Placeholders |->
                                IF p \in Issued(nodes)
                                THEN classes[p] \cup {"is-loading"} ELSE classes[p]]
                        ELSE classes
          /\ steps' = IF runs
                      THEN [p \in Placeholders |->
                              IF p \in Issued(nodes) THEN FirstSteps ELSE steps[p]]
                      ELSE steps
          /\ loader' = IF runs THEN "awaiting" ELSE loader
          /\ microtasks' = IF runs
                           THEN QueueCompletion(microtasks, task', loader')
                           ELSE microtasks
          /\ deckInited' = d.inited
          /\ deck' = d.deck
    /\ UNCHANGED <<nodes, blogHeader, result, content, dispatched, completionLog,
                   delivered, giscus, roots>>
    /\ UNCHANGED auxVars

\* The end of a task body: classes, log and the Promise.all reaction.
Finish(p, ran) ==
    /\ task' = [task EXCEPT ![p] = TaskPromise(ran)]
    /\ steps' = [steps EXCEPT ![p] = @ \o ran]
    /\ classes' = [classes EXCEPT ![p] = ClassesAfter(@, ran)]

\* fetch(url) of placeholder p settles with res.  A rejection goes to the
\* catch and finally blocks; a response of any status goes on to .text().
FetchSettle(p, res) ==
    /\ task[p] = "fetching"
    /\ p \notin hung
    /\ microtasks = <<>>
    /\ result' = [result EXCEPT ![p] = res]
    /\ IF res = "networkError"
       THEN /\ Finish(p, Continuation(p = blogHeader, TRUE, "none"))
            /\ microtasks' = QueueCompletion(microtasks, task', loader)
       ELSE /\ task' = [task EXCEPT ![p] = "reading"]
            /\ steps' = [steps EXCEPT ![p] = Append(@, "text")]
            /\ UNCHANGED <<classes, microtasks>>
    /\ UNCHANGED <<nodes, blogHeader, readyState, content, loader, dispatched,
                   completionLog, delivered, giscus>>
    /\ UNCHANGED <<deckVars, auxVars>>

\* response.text() of placeholder p settles: the body is there (bodyOk) or
\* the read failed.  With the body, the rest of the try block runs in the
\* same turn; throwAt names the statement that raises, if any.
TextSettle(p, bodyOk, throwAt) ==
    /\ task[p] = "reading"
    /\ microtasks = <<>>
    /\ throwAt \in {"none"} \cup ThrowPoints(p = blogHeader)
    /\ ~bodyOk => throwAt = "none"
    /\ LET ran == Continuation(p = blogHeader, ~bodyOk, throwAt)
           injects == "inject" \in Range(ran)
       IN /\ Finish(p, ran)
          /\ content' = IF injects THEN [content EXCEPT ![p] = Injected(result[p])]
                        ELSE content
          /\ microtasks' = QueueCompletion(
                             IF injects THEN QueueMutation(microtasks) ELSE microtasks,
                             task', loader)
    /\ UNCHANGED <<nodes, blogHeader, readyState, result, loader, dispatched,
                   completionLog, delivered, giscus>>
    /\ UNCHANGED <<deckVars, auxVars>>

\* The mutation observer's callback (deck-carousel.js:32).
MutationCallback ==
    /\ microtasks # <<>>
    /\ Head(microtasks) = "mutationObserver"
    /\ LET d == InitAnyDecks(roots, content, deckInited, deck)
       IN /\ deckInited' = d.inited
          /\ deck' = d.deck
    /\ microtasks' = Tail(microtasks)
    /\ UNCHANGED <<roots, auxVars>>
    /\ UNCHANGED <<nodes, blogHeader, readyState, task, result, classes, content,
                   steps, loader, dispatched, completionLog, delivered, giscus>>

\* The loader's handler resumes after await Promise.all(...).
LoaderContinue ==
    /\ microtasks # <<>>
    /\ Head(microtasks) = "loaderContinue"
    /\ LET st == RunCompletion([giscus |-> giscus, dispatched |-> dispatched,
                                delivered |-> delivered, log |-> completionLog], 1)
           d == DecksAfter(st.delivered, roots, content, deckInited, deck)
       IN /\ giscus' = st.giscus
          /\ dispatched' = st.dispatched
          /\ delivered' = st.delivered
          /\ completionLog' = st.log
          /\ deckInited' = d.inited
          /\ deck' = d.deck
          /\ microtasks' = IF st.giscus # giscus
                           THEN QueueMutation(Tail(microtasks))
                           ELSE Tail(microtasks)
    /\ loader' = "done"
    /\ UNCHANGED <<nodes, blogHeader, readyState, task, result, classes, content,
                   steps, roots>>
    /\ UNCHANGED auxVars

\* The window fires load: initAnyDecks runs, then the measure listeners
\* earlier initDeckCarousel calls left ({once: true}); the ones this
\* dispatch adds stay.
WindowLoad ==
    /\ readyState = "dclFired"
    /\ microtasks = <<>>
    /\ readyState' = "complete"
    /\ LET d == DecksAfter(Invoked([type |-> "load", target |-> "window",
                                    bubbles |-> FALSE]),
                           roots, content, deckInited, deck)
       IN /\ deckInited' = d.inited
          /\ deck' = [r \in Roots |->
                        [d.deck[r] EXCEPT !.lis["winLoad"] = @ - deck[r].lis["winLoad"]]]
    /\ UNCHANGED <<roots, auxVars>>
    /\ UNCHANGED <<nodes, blogHeader, task, result, classes, content, steps, loader,
                   microtasks, dispatched, completionLog, delivered, giscus>>

\* The giscus client script, once loaded, puts its iframe into the container.
GiscusClient ==
    /\ microtasks = <<>>
    /\ giscus.scripts > 0
    /\ ~giscus.iframe
    /\ giscus' = [giscus EXCEPT !.iframe = TRUE]
    /\ microtasks' = QueueMutation(microtasks)
    /\ UNCHANGED <<nodes, blogHeader, readyState, task, result, classes, content,
                   steps, loader, dispatched, completionLog, delivered>>
    /\ UNCHANGED <<deckVars, auxVars>>

Next ==
    \/ DOMContentLoaded
    \/ \E p \in Placeholders, res \in FetchResults : FetchSettle(p, res)
    \/ \E p \in Placeholders, b \in BOOLEAN,
          t \in {"none", "substitute", "inject", "scripts"} : TextSettle(p, b, t)
    \/ MutationCallback
    \/ LoaderContinue
    \/ WindowLoad
    \/ GiscusClient

Spec == Init /\ [][Next]_vars

\* The same program on a page that holds no carousel root.
LoaderInit == Init /\ \A r \in Roots : roots[r].kind = "none"
LoaderSpec == LoaderInit /\ [][Next]_vars

\* mountGiscus is a global function: besides the loader's call, a second copy
\* of the script or a script of the page calls it.
MountGiscusCall ==
    /\ microtasks = <<>>
    /\ giscus.scripts < MaxMounts
    /\ giscus' = MountGiscus(giscus)
    /\ microtasks' = IF giscus' # giscus THEN QueueMutation(microtasks) ELSE microtasks
    /\ UNCHANGED <<nodes, blogHeader, readyState, task, result, classes, content,
                   steps, loader, dispatched, completionLog, delivered>>
    /\ UNCHANGED <<deckVars, auxVars>>

GiscusNext == Next \/ MountGiscusCall

GiscusSpec == LoaderInit /\ [][GiscusNext]_vars

\* Pages on which some fetches never settle.  The browser delivers
\* DOMContentLoaded and runs queued microtasks; every other fetch and body
\* read settles.
HungInit ==
    /\ nodes \in 0..MaxPlaceholders
    /\ blogHeader \in {0} \cup ({1} \cap (1..nodes))
    /\ readyState = "interactive"
    /\ task = [p \in 1..nodes |-> "pending"]
    /\ result = [p \in 1..nodes |-> "none"]
    /\ classes = [p \in 1..nodes |-> {}]
    /\ content = [p \in 1..nodes |-> "original"]
    /\ steps = [p \in 1..nodes |-> <<>>]
    /\ loader = "idle"
    /\ microtasks = <<>>
    /\ dispatched = 0
    /\ completionLog = <<>>
    /\ delivered = {}
    /\ giscus \in {[container |-> c, scripts |-> 0, iframe |-> FALSE] : c \in BOOLEAN}
    /\ roots = [r \in Roots |-> [kind |-> "none", host |-> 0, shape |-> EmptyDeck]]
    /\ deckInited = {}
    /\ deck = [r \in Roots |-> FreshDeck]
    /\ NavQuiet
    /\ FragQuiet
    /\ ContactQuiet
    /\ VideoQuiet
    /\ IndexQuiet
    /\ NewsQuiet
    /\ hung \in SUBSET (1..nodes)

HungSpec ==
    /\ HungInit
    /\ [][Next]_vars
    /\ WF_vars(DOMContentLoaded)
    /\ \A p \in 1..MaxPlaceholders :
          /\ WF_vars(p \in Placeholders /\ \E res \in FetchResults : FetchSettle(p, res))
          /\ WF_vars(p \in Placeholders /\ TextSettle(p, TRUE, "none"))
    /\ WF_vars(MutationCallback)
    /\ WF_vars(LoaderContinue)

\* A page without placeholders, carousel roots or comments container, on
\* which nothing of the loader has run: the other features are looked at on
\* their own.
PageQuiet ==
    /\ nodes = 0
    /\ blogHeader = 0
    /\ readyState = "interactive"
    /\ task = <<>>
    /\ result = <<>>
    /\ classes = <<>>
    /\ content = <<>>
    /\ steps = <<>>
    /\ loader = "idle"
    /\ microtasks = <<>>
    /\ dispatched = 0
    /\ completionLog = <<>>
    /\ delivered = {}
    /\ giscus = [container |-> FALSE, scripts |-> 0, iframe |-> FALSE]
    /\ roots = [r \in Roots |-> [kind |-> "none", host |-> 0, shape |-> EmptyDeck]]
    /\ deckInited = {}
    /\ deck = [r \in Roots |-> FreshDeck]

(* ------------------------------ mobile nav ----------------------------- *)

\* getEls(): the elements found by id, none before the navbar is injected.
GetEls(present, els) == IF present THEN els ELSE {}

\* openMenu (script.js:595-602) on menu state m with the elements els;
\* `changes` counts the switches of aria-expanded during one dispatch.
OpenMenu(m, els) ==
    IF "btn" \notin els \/ "menu" \notin els THEN m
    ELSE [m EXCEPT !.expanded = TRUE,
                   !.menuHidden = FALSE,
                   !.backdropHidden = IF "backdrop" \in els THEN FALSE ELSE @,
                   !.lock = TRUE,
                   !.changes = IF m.expanded THEN @ ELSE @ + 1]

\* Variant of CloseMenu that leaves the scroll lock on the document root.
CloseMenuKeepsLock(m, els) ==
    IF "btn" \notin els \/ "menu" \notin els THEN m
    ELSE [m EXCEPT !.expanded = FALSE,
                   !.menuHidden = TRUE,
                   !.backdropHidden = IF "backdrop" \in els THEN TRUE ELSE @,
                   !.changes = IF m.expanded THEN @ + 1 ELSE @]

\* closeMenu (script.js:605-612).
CloseMenu(m, els) ==
    IF "btn" \notin els \/ "menu" \notin els THEN m
    ELSE [m EXCEPT !.expanded = FALSE,
                   !.menuHidden = TRUE,
                   !.backdropHidden = IF "backdrop" \in els THEN TRUE ELSE @,
                   !.lock = FALSE,
                   !.changes = IF m.expanded THEN @ + 1 ELSE @]

\* isOpen (script.js:614-617).
IsOpen(m, els) == "btn" \in els /\ m.expanded

\* Where a user can click, and the selectors e.target.closest() matches
\* there.  The toggle and the backdrop sit outside the menu panel.
Closest(t) ==
    CASE t = "toggle"    -> {"#navToggle"}
      [] t = "backdrop"  -> {"#navBackdrop"}
      [] t = "menuLink"  -> {"#mobileMenu", "#mobileMenu a"}
      [] t = "menuOther" -> {"#mobileMenu"}
      [] OTHER           -> {}

\* The element a click target belongs to ("none": anywhere else).
TargetEl(t) ==
    CASE t = "toggle"   -> "btn"
      [] t = "backdrop" -> "backdrop"
      [] t \in {"menuLink", "menuOther"} -> "menu"
      [] OTHER          -> "none"

\* Variant of ClickHandlers whose outside-click handler does not look for
\* the toggle.
ClickHandlersOutsideUndoes(m, els, t) ==
    LET m1 == IF "#navToggle" \notin Closest(t) THEN m
              ELSE IF IsOpen(m, els) THEN CloseMenu(m, els) ELSE OpenMenu(m, els)
        m2 == IF "#navBackdrop" \in Closest(t) THEN CloseMenu(m1, els) ELSE m1
        m3 == IF "#mobileMenu" \notin Closest(t) /\ IsOpen(m2, els)
              THEN CloseMenu(m2, els) ELSE m2
    IN IF "#mobileMenu a" \in Closest(t) THEN CloseMenu(m3, els) ELSE m3

\* The four delegated click handlers (script.js:620-641), in the order they
\* were added.
ClickHandlers(m, els, t) ==
    LET m1 == IF "#navToggle" \notin Closest(t) THEN m
              ELSE IF IsOpen(m, els) THEN CloseMenu(m, els) ELSE OpenMenu(m, els)
        m2 == IF "#navBackdrop" \in Closest(t) THEN CloseMenu(m1, els) ELSE m1
        m3 == IF /\ "#navToggle" \notin Closest(t)
                 /\ "#mobileMenu" \notin Closest(t)
                 /\ IsOpen(m2, els)
              THEN CloseMenu(m2, els) ELSE m2
    IN IF "#mobileMenu a" \in Closest(t) THEN CloseMenu(m3, els) ELSE m3

\* The keydown handler (script.js:644-646) and the scroll handler
\* (script.js:649-651).
KeydownHandler(m, els, key) ==
    IF key = "Escape" /\ IsOpen(m, els) THEN CloseMenu(m, els) ELSE m

ScrollHandler(m, els) == IF IsOpen(m, els) THEN CloseMenu(m, els) ELSE m

\* One event runs the handlers of every set of listeners that was added.
RECURSIVE RunSets(_, _, _, _)
RunSets(k, m, els, ev) ==
    IF k = 0 THEN m
    ELSE RunSets(k - 1,
                 CASE ev.type = "click"   -> ClickHandlers(m, els, ev.at)
                   [] ev.type = "keydown" -> KeydownHandler(m, els, ev.at)
                   [] OTHER               -> ScrollHandler(m, els),
                 els, ev)

\* Variant of NavGuard without the bind-once flag.
NavGuardOff(bound) == FALSE

\* The guard of the module body: if (window.__navBound) return.
NavGuard(bound) == bound

\* The module body is evaluated (the script is included once more).
NavModule ==
    /\ navRuns < MaxModuleRuns
    /\ navRuns' = navRuns + 1
    /\ IF NavGuard(navBound)
       THEN UNCHANGED <<navBound, navSets>>
       ELSE /\ navBound' = TRUE
            /\ navSets' = navSets + 1
    /\ UNCHANGED <<navEls, navPresent, nav, navEvent>>
    /\ UNCHANGED <<loaderVars, deckVars, newsVars, indexVars,
                   fragVars, netVars, contactVars, videoVars>>

\* The include loader injects the navbar fragment.
NavbarInjected ==
    /\ ~navPresent
    /\ navPresent' = TRUE
    /\ UNCHANGED <<navBound, navSets, navRuns, navEls, nav, navEvent>>
    /\ UNCHANGED <<loaderVars, deckVars, newsVars, indexVars,
                   fragVars, netVars, contactVars, videoVars>>

\* The user does something: a click at `at`, a key, a scroll.
NavDispatch(ev, kind) ==
    LET els == GetEls(navPresent, navEls)
        m == RunSets(navSets,
                     [expanded |-> nav.expanded, menuHidden |-> nav.menuHidden,
                      backdropHidden |-> nav.backdropHidden, lock |-> nav.lock,
                      changes |-> 0],
                     els, ev)
    IN /\ nav' = [expanded |-> m.expanded, menuHidden |-> m.menuHidden,
                  backdropHidden |-> m.backdropHidden, lock |-> m.lock]
       /\ navEvent' = [kind |-> kind, sets |-> navSets, changes |-> m.changes]
       /\ UNCHANGED <<navBound, navSets, navRuns, navEls, navPresent>>
       /\ UNCHANGED <<loaderVars, deckVars, newsVars, indexVars,
                      fragVars, netVars, contactVars, videoVars>>

NavClick(t) ==
    /\ TargetEl(t) = "none" \/ TargetEl(t) \in GetEls(navPresent, navEls)
    /\ t = "backdrop" => ~nav.backdropHidden
    /\ t \in {"menuLink", "menuOther"} => ~nav.menuHidden
    /\ NavDispatch([type |-> "click", at |-> t], t)

NavKeydown(key) == NavDispatch([type |-> "keydown", at |-> key], key)

NavScroll == NavDispatch([type |-> "scroll", at |-> "window"], "scroll")

NavInit ==
    /\ PageQuiet
    /\ navBound = FALSE
    /\ navSets = 0
    /\ navRuns = 0
    /\ navEls \in SUBSET {"btn", "menu", "backdrop"}
    /\ navPresent \in BOOLEAN
    /\ nav = NavClosed
    /\ navEvent = [kind |-> "none", sets |-> 0, changes |-> 0]
    /\ FragQuiet
    /\ NetQuiet
    /\ ContactQuiet
    /\ VideoQuiet
    /\ IndexQuiet
    /\ NewsQuiet

NavNext ==
    \/ NavModule
    \/ NavbarInjected
    \/ \E t \in {"toggle", "backdrop", "menuLink", "menuOther", "outside"} : NavClick(t)
    \/ \E key \in {"Escape", "Enter"} : NavKeydown(key)
    \/ NavScroll

NavSpec == NavInit /\ [][NavNext]_vars

(* ------------------------------ properties ----------------------------- *)

\* Placeholder p has reached its terminal state: is-loading removed,
\* is-ready added.
Ready(p) == classes[p] = {"is-ready"}

\* Both awaits of p's task are over.
AwaitsOver(p) == task[p] \notin {"pending", "fetching", "reading"}

\* No microtask is pending: the event loop is between two tasks.
Idle == microtasks = <<>>

\* The fetch of p ended in a rejection or in a non-2xx response.
FetchFailed(p) == result[p] \in {"httpError", "networkError"}

\* C1: for every number of placeholders and every order in which their
\* fetches settle, 'includes:ready' is dispatched at most once, only when
\* every placeholder is ready, and it has been dispatched exactly once as
\* soon as every task is over and the event loop is idle again.
C1_SignalOnceAfterAllReady ==
    /\ dispatched <= 1
    /\ dispatched = 1 => \A p \in Placeholders : Ready(p)
    /\ (readyState # "interactive" /\ Idle /\ \A p \in Placeholders : AwaitsOver(p))
          => dispatched = 1

\* C1 witness: two placeholders settled differently and the signal is out.
C1_Witness ==
    /\ nodes >= 2
    /\ dispatched = 1
    /\ \E p, q \in Placeholders : result[p] = "networkError" /\ content[q] = "fragment"

\* C2: when the fetch of one placeholder fails, every other placeholder
\* whose fetch succeeded and whose fragment was processed without an
\* exception holds its fragment, and the signal is dispatched once all tasks
\* are over.
C2_FailureIsolated ==
    \A p \in Placeholders : FetchFailed(p) =>
        /\ \A q \in Placeholders \ {p} :
              (AwaitsOver(q) /\ result[q] = "ok" /\ "catch" \notin Range(steps[q]))
                 => content[q] = "fragment"
        /\ (Idle /\ \A q \in Placeholders : AwaitsOver(q)) => dispatched = 1

\* C2 witness: one fetch was rejected, another placeholder holds its
\* fragment, the signal is out.
C2_Witness ==
    \E p, q \in Placeholders :
        /\ p # q
        /\ result[p] = "networkError"
        /\ result[q] = "ok" /\ content[q] = "fragment"
        /\ dispatched = 1

\* C3: a placeholder's content is replaced only when its fetch succeeded: a
\* fetch that ended in a network error or in a non-2xx response took the
\* catch branch, left the content alone, and the placeholder is ready.
C3_FailedFetchNotInjected ==
    \A p \in Placeholders : (AwaitsOver(p) /\ FetchFailed(p)) =>
        /\ content[p] = "original"
        /\ "catch" \in Range(steps[p])
        /\ Ready(p)

\* C4 (as claimed): mountGiscus never runs before 'includes:ready' has been
\* dispatched.
C4_SignalBeforeHooks ==
    \A i \in 1..Len(completionLog) :
        completionLog[i].call = "mountGiscus" => completionLog[i].dispatched >= 1

\* C4 (amended): once all placeholders are ready the loader calls mountGiscus
\* first, with no event dispatched yet, and dispatches 'includes:ready' right
\* after it in the same turn.
C4_HooksThenSignal ==
    /\ completionLog # <<>> =>
          /\ Len(completionLog) = 2
          /\ completionLog[1] = [call |-> "mountGiscus", dispatched |-> 0]
          /\ completionLog[2] = [call |-> "dispatchEvent", dispatched |-> 0]
          /\ \A p \in Placeholders : Ready(p)
    /\ dispatched = 1 <=> completionLog # <<>>

\* C4 witness: the loader has completed and mountGiscus added the script.
C4_Witness ==
    /\ completionLog # <<>>
    /\ giscus.scripts = 1
    /\ nodes >= 1

\* The order of the steps of one placeholder.
StepOrder == <<"loading", "fetch", "text", "substitute", "inject", "scripts",
               "year", "catch", "ready">>

\* Position of step x in StepOrder.
StepIndex(x) == CHOOSE i \in 1..Len(StepOrder) : StepOrder[i] = x

\* C5, in a state: the classes follow the position of the task (none while
\* pending, is-loading alone while the fetch or the body read is pending,
\* is-ready alone afterwards), the steps taken are in the order fetch,
\* substitute, inject, reactivate scripts, mark ready, and a task whose
\* awaits are over went through inject or catch and ended with ready.
C5_State ==
    \A p \in Placeholders :
        /\ (task[p] = "pending") <=> (classes[p] = {})
        /\ (task[p] \in {"fetching", "reading"}) <=> (classes[p] = {"is-loading"})
        /\ AwaitsOver(p) <=> Ready(p)
        /\ \A i, j \in 1..Len(steps[p]) :
              i < j => StepIndex(steps[p][i]) < StepIndex(steps[p][j])
        /\ AwaitsOver(p) =>
              /\ steps[p][Len(steps[p])] = "ready"
              /\ {"inject", "catch"} \cap Range(steps[p]) # {}

\* C5, in a step: a task only moves forward, and a ready placeholder stays
\* as it is.
C5_Step ==
    \A p \in Placeholders :
        /\ task'[p] # task[p] =>
              <<task[p], task'[p]>> \in {<<"pending", "fetching">>, <<"fetching", "reading">>,
                                        <<"fetching", "done">>, <<"reading", "done">>}
        /\ Ready(p) => classes'[p] = classes[p] /\ steps'[p] = steps[p]

\* C5: each placeholder moves only along pending -> loading ->
\* {injected | failed} -> ready, never carries is-loading and is-ready
\* together, never leaves ready, and is ready whenever its awaits are over,
\* also when the substitution, the injection or the script reactivation
\* throws.
C5_PlaceholderLifecycle == [](C5_State) /\ [][C5_Step]_vars

\* C5 witness: a blog-header placeholder whose script reactivation threw
\* after substitution and injection, and which is ready.
C5_Witness ==
    \E p \in Placeholders :
        /\ steps[p] = <<"loading", "fetch", "text", "substitute", "inject", "catch", "ready">>
        /\ Ready(p)

\* Handler invocations one user action on the element of listener n of root
\* r causes.
HandlerRuns(r, n) == deck[r].lis[n]

\* C6: whatever sub-elements a root has and whatever triggers ran
\* initAnyDecks, no element of the root carries a listener twice: one user
\* action never invokes a handler twice.
C6_ListenersAttachedOnce ==
    \A r \in Roots : \A n \in UserListeners : HandlerRuns(r, n) <= 1

\* C7: for every combination of present and absent sub-elements,
\* initDeckCarousel completes without raising an error.
C7_PartialMarkupTolerated ==
    \A r \in Roots : ~deck[r].raised

\* C8: the event the loader dispatches reaches the carousel: raising the
\* signal runs initAnyDecks.
C8_SignalReachesCarousel ==
    dispatched >= 1 => "initAnyDecks" \in delivered

\* C9: a root on which initDeckCarousel was a no-op is not recorded in the
\* guard set and is bound by a later pass: once the track and the cards of a
\* root that stood empty in the page have arrived and the observer's
\* callback has run, the root is bound.
C9_LateMarkupGetsBound ==
    \A r \in Roots :
        (/\ roots[r].kind = "shell"
         /\ content[roots[r].host] = "fragment"
         /\ Idle)
          => deck[r].applied >= 1

\* C10: a root that arrives with its track and cards inside an injected
\* fragment is initialized once the fragment is in and the event loop is
\* idle, and exactly once whatever triggers follow.
C10_FragmentRootInitOnce ==
    \A r \in Roots :
        (/\ roots[r].kind = "fragment"
         /\ content[roots[r].host] = "fragment"
         /\ Idle)
          => deck[r].applied = 1

(* ------------------- one fragment, from text to DOM -------------------- *)

\* Text is a sequence of symbols: "T" stands for the token {{title}}, "S" for
\* {{subtitle}}, "dT" and "dS" for the two built-in defaults, the others
\* for themselves.
TitleToken == "T"
SubtitleToken == "S"
DefaultTitle == <<"dT">>
DefaultSubtitle == <<"dS">>

\* el.dataset.title / el.dataset.subtitle: <<"absent">> is undefined (no
\* attribute), <<>> the empty string.
FragmentEls == [isBlogHeader : BOOLEAN,
                title : {<<"absent">>, <<>>, <<"a">>, <<"$", "&">>, <<"$", "$">>},
                subtitle : {<<"absent">>, <<"b">>}]

\* A node of the fragment: a text node, a script element, the #year element.
TextNode(t) == [tag |-> "#text", attrs |-> <<>>, text |-> t, fresh |-> FALSE]
ScriptSrc == [tag |-> "script", attrs |-> << <<"src", "a.js">>, <<"defer", "">> >>,
              text |-> <<>>, fresh |-> FALSE]
ScriptInline == [tag |-> "script", attrs |-> << <<"type", "module">> >>,
                 text |-> <<"x", "T">>, fresh |-> FALSE]
YearEl == [tag |-> "span#year", attrs |-> <<>>, text |-> <<>>, fresh |-> FALSE]
Fragments ==
    UNION {[1..n -> {TextNode(<<"x">>), TextNode(<<"T", "x", "T">>), TextNode(<<"S">>),
                     ScriptSrc, ScriptInline, YearEl}] : n \in 0..MaxFragment}

\* value || default: undefined and the empty string are both falsy.
OrDefault(value, default) ==
    IF value = <<"absent">> \/ value = <<>> THEN default ELSE value

\* The text a replacement string stands for at one match (GetSubstitution of
\* String.prototype.replaceAll): $$ is a dollar sign, $& the matched text.
RECURSIVE GetSubstitution(_, _)
GetSubstitution(value, matched) ==
    IF value = <<>> THEN <<>>
    ELSE IF Len(value) >= 2 /\ value[1] = "$" /\ value[2] = "$"
         THEN <<"$">> \o GetSubstitution(Tail(Tail(value)), matched)
    ELSE IF Len(value) >= 2 /\ value[1] = "$" /\ value[2] = "&"
         THEN <<matched>> \o GetSubstitution(Tail(Tail(value)), matched)
    ELSE <<Head(value)>> \o GetSubstitution(Tail(value), matched)

\* text.replaceAll(token, value)
RECURSIVE ReplaceAll(_, _, _)
ReplaceAll(text, token, value) ==
    IF text = <<>> THEN <<>>
    ELSE (IF Head(text) = token THEN GetSubstitution(value, token) ELSE <<Head(text)>>)
         \o ReplaceAll(Tail(text), token, value)

\* Lines 538-542 on the html string: the string is the nodes in sequence,
\* and a replacement touches the text inside each of them.
Substitute(html, el) ==
    IF el.isBlogHeader
    THEN [i \in 1..Len(html) |->
            [html[i] EXCEPT !.text =
                ReplaceAll(ReplaceAll(@, TitleToken, OrDefault(el.title, DefaultTitle)),
                           SubtitleToken, OrDefault(el.subtitle, DefaultSubtitle))]]
    ELSE html

\* Variant of SetAttributes that copies nothing.
SetAttributesNone(attributes, acc) == acc

\* Array.from(old.attributes).forEach(a => s.setAttribute(a.name, a.value))
RECURSIVE SetAttributes(_, _)
SetAttributes(attributes, acc) ==
    IF attributes = <<>> THEN acc
    ELSE SetAttributes(Tail(attributes), Append(acc, Head(attributes)))

\* Lines 547-552: every script element is replaced in place by a new one.
Reactivate(dom) ==
    [i \in 1..Len(dom) |->
        IF dom[i].tag = "script"
        THEN [tag |-> "script", attrs |-> SetAttributes(dom[i].attrs, <<>>),
              text |-> dom[i].text, fresh |-> TRUE]
        ELSE dom[i]]

\* Lines 555-556: the first #year element gets the year if it is empty.
FillYear(dom) ==
    LET ys == {i \in 1..Len(dom) : dom[i].tag = "span#year"}
    IN IF ys = {} THEN dom
       ELSE LET y == CHOOSE i \in ys : \A j \in ys : i <= j
            IN IF dom[y].text = <<>> THEN [dom EXCEPT ![y].text = <<"thisYear">>]
               ELSE dom

\* The try block of one placeholder's task once the text has arrived.
ProcessFragment ==
    /\ ~fragDone
    /\ fragText' = Substitute(fragHtml, fragEl)
    /\ fragDom' = FillYear(Reactivate(fragText'))
    /\ fragDone' = TRUE
    /\ UNCHANGED <<fragEl, fragHtml>>
    /\ UNCHANGED <<loaderVars, deckVars, newsVars, indexVars,
                   navVars, netVars, contactVars, videoVars>>

FragInit ==
    /\ PageQuiet
    /\ NavQuiet
    /\ NetQuiet
    /\ ContactQuiet
    /\ VideoQuiet
    /\ IndexQuiet
    /\ NewsQuiet
    /\ fragEl \in FragmentEls
    /\ fragHtml \in Fragments
    /\ fragText = <<>>
    /\ fragDom = <<>>
    /\ fragDone = FALSE

FragSpec == FragInit /\ [][ProcessFragment]_vars

(* ----------------------------- contact form ---------------------------- *)

\* No detail after the failure message.
NoDetail == [kind |-> "none", len |-> 0]

\* The bodies a non-2xx response can carry: JSON with a code and possibly a
\* message, or text that is not JSON, of some length (maybe none).
NoBody == [kind |-> "none", code |-> "none", message |-> FALSE, len |-> 0]
ErrorBodies ==
    [kind : {"json"},
     code : {"invalid_email", "validation_failed", "smtp_error", "smtp_unavailable",
             "smtp_auth_failed", "other", "none"},
     message : BOOLEAN, len : {0}]
    \cup [kind : {"text"}, code : {"none"}, message : {FALSE}, len : {0, 150, 250}]

\* showStatus(msg, ok): c is the status element with its timers.
ShowStatus(c, hasStatus, msg, detail, ok) ==
    IF ~hasStatus THEN c
    ELSE [status |-> [msg |-> msg, detail |-> detail, ok |-> ok,
                      hidden |-> FALSE, faded |-> FALSE],
          timers |-> [c.timers EXCEPT !.fade = IF ok THEN @ + 1 ELSE @]]

\* The detail mapped from the parsed JSON body (script.js:249-257).
DetailOf(data) ==
    CASE data.code = "invalid_email" -> [kind |-> "invalidEmail", len |-> 0]
      [] data.code = "validation_failed" -> [kind |-> "validation", len |-> 0]
      [] data.code \in {"smtp_error", "smtp_unavailable", "smtp_auth_failed"}
            -> [kind |-> "smtp", len |-> 0]
      [] OTHER -> IF data.message THEN [kind |-> "message", len |-> 0] ELSE NoDetail

\* await res.text().catch(() => ""): the length of txt.  A body that has been
\* read already makes text() reject.
TextOrEmpty(bodyUsed, body) == IF bodyUsed THEN 0 ELSE body.len

\* if (txt) detail = txt.slice(0, 200)
TextDetail(txtLen) ==
    IF txtLen = 0 THEN NoDetail
    ELSE [kind |-> "text", len |-> IF txtLen > SliceLimit THEN SliceLimit ELSE txtLen]

\* submitBtn.textContent = originalText || "Send Message"
RestoredLabel(originalText) == IF originalText = "" THEN "Send Message" ELSE originalText

\* Variant of BusyGuard that does not look at the busy flag.
BusyGuardOff(b, hasBtn) == ~hasBtn

\* if (busy || !submitBtn) return
BusyGuard(b, hasBtn) == b \/ ~hasBtn

\* The contact form's DOMContentLoaded handler (script.js:155-187).
ContactReady ==
    /\ ~cReady
    /\ cReady' = TRUE
    /\ cBound' = ("form" \in cEls)
    /\ UNCHANGED <<cEls, cLabel, cDisabled, busy, cFields, cSubmits, sub, cStatus, cTimers>>
    /\ UNCHANGED <<loaderVars, deckVars, newsVars, indexVars,
                   navVars, fragVars, netVars, videoVars>>

\* The user fills the form in some way and submits it: the handler runs up
\* to its first await or to a return.
Submit(fill) ==
    /\ cBound
    /\ cSubmits < MaxSubmits
    /\ fill.honeypot => "honeypot" \in cEls
    /\ cSubmits' = cSubmits + 1
    /\ LET c == [status |-> cStatus, timers |-> cTimers]
           hasStatus == "status" \in cEls
       IN IF BusyGuard(busy, "btn" \in cEls)
          THEN /\ cFields' = "typed"
               /\ UNCHANGED <<cLabel, cDisabled, busy, sub, cStatus, cTimers>>
          ELSE IF fill.honeypot
          THEN /\ cStatus' = ShowStatus(c, hasStatus, "success", NoDetail, TRUE).status
               /\ cTimers' = ShowStatus(c, hasStatus, "success", NoDetail, TRUE).timers
               /\ cFields' = "reset"
               /\ UNCHANGED <<cLabel, cDisabled, busy, sub>>
          ELSE IF fill.fields \in {"missing", "badEmail"}
          THEN /\ cStatus' = ShowStatus(c, hasStatus, fill.fields, NoDetail, FALSE).status
               /\ cTimers' = ShowStatus(c, hasStatus, fill.fields, NoDetail, FALSE).timers
               /\ cFields' = "typed"
               /\ UNCHANGED <<cLabel, cDisabled, busy, sub>>
          ELSE /\ busy' = TRUE
               /\ cDisabled' = TRUE
               /\ cLabel' = "Sending"
               /\ cFields' = "typed"
               /\ sub' = Append(sub, [pc |-> "fetch", originalText |-> cLabel,
                                      timer |-> "armed", ok |-> FALSE, body |-> NoBody,
                                      bodyUsed |-> FALSE,
                                      cause |-> "none", reset |-> FALSE,
                                      shown |-> [msg |-> "none", detail |-> NoDetail]])
               /\ UNCHANGED <<cStatus, cTimers>>
    /\ UNCHANGED <<cEls, cBound, cReady>>
    /\ UNCHANGED <<loaderVars, deckVars, newsVars, indexVars,
                   navVars, fragVars, netVars, videoVars>>

\* Call i leaves its try block: showStatus(msg), then the finally block.
Conclude(i, cause, msg, detail, ok, reset, timer) ==
    LET c == ShowStatus([status |-> cStatus, timers |-> cTimers], "status" \in cEls,
                        msg, detail, ok)
    IN /\ cStatus' = c.status
       /\ cTimers' = c.timers
       /\ cFields' = IF reset THEN "reset" ELSE cFields
       /\ busy' = FALSE
       /\ cDisabled' = FALSE
       /\ cLabel' = RestoredLabel(sub[i].originalText)
       /\ sub' = [sub EXCEPT ![i].pc = "done", ![i].timer = timer, ![i].cause = cause,
                             ![i].reset = reset,
                             ![i].shown = [msg |-> msg, detail |-> detail]]

\* fetch() of call i resolves with a response: clearTimeout(t); a 2xx
\* response ends the call, any other goes on to await res.json().
FetchResolve(i, ok, body) ==
    /\ i \in 1..Len(sub)
    /\ sub[i].pc = "fetch"
    /\ ok => body = NoBody
    /\ ~ok => body \in ErrorBodies
    /\ IF ok
       THEN Conclude(i, "ok", "success", NoDetail, TRUE, TRUE, "cleared")
       ELSE /\ sub' = [sub EXCEPT ![i].pc = "json", ![i].timer = "cleared",
                                  ![i].ok = FALSE, ![i].body = body,
                                  ![i].bodyUsed = TRUE, ![i].cause = "error"]
            /\ UNCHANGED <<cLabel, cDisabled, busy, cFields, cStatus, cTimers>>
    /\ UNCHANGED <<cEls, cBound, cReady, cSubmits>>
    /\ UNCHANGED <<loaderVars, deckVars, newsVars, indexVars,
                   navVars, fragVars, netVars, videoVars>>

\* fetch() of call i rejects for a reason other than the abort: the outer
\* catch and the finally block run; the abort timer is left armed.
FetchReject(i) ==
    /\ i \in 1..Len(sub)
    /\ sub[i].pc = "fetch"
    /\ Conclude(i, "network", "network", NoDetail, FALSE, FALSE, sub[i].timer)
    /\ UNCHANGED <<cEls, cBound, cReady, cSubmits>>
    /\ UNCHANGED <<loaderVars, deckVars, newsVars, indexVars,
                   navVars, fragVars, netVars, videoVars>>

\* The 15-second timer of call i fires: ctrl.abort().  A fetch still pending
\* rejects with an AbortError; otherwise nothing happens.
AbortTimer(i) ==
    /\ i \in 1..Len(sub)
    /\ sub[i].timer = "armed"
    /\ IF sub[i].pc = "fetch"
       THEN Conclude(i, "abort", "timeout", NoDetail, FALSE, FALSE, "fired")
       ELSE /\ sub' = [sub EXCEPT ![i].timer = "fired"]
            /\ UNCHANGED <<cLabel, cDisabled, busy, cFields, cStatus, cTimers>>
    /\ UNCHANGED <<cEls, cBound, cReady, cSubmits>>
    /\ UNCHANGED <<loaderVars, deckVars, newsVars, indexVars,
                   navVars, fragVars, netVars, videoVars>>

\* res.json() of call i settles: with parsed data the detail is mapped and
\* the call ends; a rejection goes to await res.text().catch(...).
JsonSettle(i) ==
    /\ i \in 1..Len(sub)
    /\ sub[i].pc = "json"
    /\ IF sub[i].body.kind = "json"
       THEN Conclude(i, "error", "failed", DetailOf(sub[i].body), FALSE, FALSE,
                     sub[i].timer)
       ELSE /\ sub' = [sub EXCEPT ![i].pc = "text"]
            /\ UNCHANGED <<cLabel, cDisabled, busy, cFields, cStatus, cTimers>>
    /\ UNCHANGED <<cEls, cBound, cReady, cSubmits>>
    /\ UNCHANGED <<loaderVars, deckVars, newsVars, indexVars,
                   navVars, fragVars, netVars, videoVars>>

\* await res.text().catch(() => "") of call i is over.
BodyTextSettle(i) ==
    /\ i \in 1..Len(sub)
    /\ sub[i].pc = "text"
    /\ Conclude(i, "error", "failed",
                TextDetail(TextOrEmpty(sub[i].bodyUsed, sub[i].body)), FALSE, FALSE,
                sub[i].timer)
    /\ UNCHANGED <<cEls, cBound, cReady, cSubmits>>
    /\ UNCHANGED <<loaderVars, deckVars, newsVars, indexVars,
                   navVars, fragVars, netVars, videoVars>>

\* A 5000 ms timer of showStatus fires: opacity-0, and the 500 ms timer.
FadeTimer ==
    /\ cTimers.fade > 0
    /\ cTimers' = [fade |-> cTimers.fade - 1, hide |-> cTimers.hide + 1]
    /\ cStatus' = [cStatus EXCEPT !.faded = TRUE]
    /\ UNCHANGED <<cEls, cLabel, cDisabled, cBound, cReady, busy, cFields, cSubmits, sub>>
    /\ UNCHANGED <<loaderVars, deckVars, newsVars, indexVars,
                   navVars, fragVars, netVars, videoVars>>

\* A 500 ms timer fires: hidden.
HideTimer ==
    /\ cTimers.hide > 0
    /\ cTimers' = [cTimers EXCEPT !.hide = @ - 1]
    /\ cStatus' = [cStatus EXCEPT !.hidden = TRUE]
    /\ UNCHANGED <<cEls, cLabel, cDisabled, cBound, cReady, busy, cFields, cSubmits, sub>>
    /\ UNCHANGED <<loaderVars, deckVars, newsVars, indexVars,
                   navVars, fragVars, netVars, videoVars>>

ContactInit ==
    /\ PageQuiet
    /\ NavQuiet
    /\ FragQuiet
    /\ NetQuiet
    /\ VideoQuiet
    /\ IndexQuiet
    /\ NewsQuiet
    /\ cEls \in SUBSET {"form", "status", "btn", "honeypot"}
    /\ cLabel \in {"Send", ""}
    /\ cDisabled = FALSE
    /\ cBound = FALSE
    /\ cReady = FALSE
    /\ busy = FALSE
    /\ cFields = "typed"
    /\ cSubmits = 0
    /\ sub = <<>>
    /\ cStatus = NoStatus
    /\ cTimers = [fade |-> 0, hide |-> 0]

ContactNext ==
    \/ ContactReady
    \/ \E fill \in [honeypot : BOOLEAN, fields : {"valid", "missing", "badEmail"}] :
          Submit(fill)
    \/ \E i \in 1..MaxSubmits, ok \in BOOLEAN, body \in ErrorBodies \cup {NoBody} :
          FetchResolve(i, ok, body)
    \/ \E i \in 1..MaxSubmits : FetchReject(i)
    \/ \E i \in 1..MaxSubmits : AbortTimer(i)
    \/ \E i \in 1..MaxSubmits : JsonSettle(i)
    \/ \E i \in 1..MaxSubmits : BodyTextSettle(i)
    \/ FadeTimer
    \/ HideTimer

ContactSpec == ContactInit /\ [][ContactNext]_vars

\* What the page can count on: its own timers fire and its own
\* continuations run.  Whether and when the network answers, and whether a
\* response body ever ends, is up to the network.
ContactFairSpec ==
    /\ ContactInit
    /\ [][ContactNext]_vars
    /\ WF_vars(ContactReady)
    /\ \A i \in 1..MaxSubmits : WF_vars(AbortTimer(i)) /\ WF_vars(BodyTextSettle(i))
    /\ WF_vars(FadeTimer)
    /\ WF_vars(HideTimer)

(* ----------------------------- video modal ----------------------------- *)

\* Strings are sequences of one-character strings.
DigitChars == <<"0", "1", "2", "3", "4", "5", "6", "7", "8", "9">>
UpperChars == <<"A", "B", "C", "D", "E", "F", "G", "H", "I", "J", "K", "L", "M",
                "N", "O", "P", "Q", "R", "S", "T", "U", "V", "W", "X", "Y", "Z">>
LowerChars == <<"a", "b", "c", "d", "e", "f", "g", "h", "i", "j", "k", "l", "m",
                "n", "o", "p", "q", "r", "s", "t", "u", "v", "w", "x", "y", "z">>

\* The value of a decimal digit.
DigitVal(c) == (CHOOSE i \in 1..Len(DigitChars) : DigitChars[i] = c) - 1

\* c in lower case.
ToLower(c) ==
    IF c \in Range(UpperChars)
    THEN LowerChars[CHOOSE i \in 1..Len(UpperChars) : UpperChars[i] = c]
    ELSE c

\* [\w-]
IsWordOrDash(c) ==
    c \in Range(DigitChars) \cup Range(UpperChars) \cup Range(LowerChars) \cup {"_", "-"}

StartsWith(str, pre) == Len(str) >= Len(pre) /\ SubSeq(str, 1, Len(pre)) = pre

\* str without its first n characters.
Drop(str, n) == SubSeq(str, n + 1, Len(str))

\* Index of the first character of str that is in cs; Len(str) + 1 if none.
IndexOfAny(str, cs) ==
    LET hits == {i \in 1..Len(str) : str[i] \in cs}
    IN IF hits = {} THEN Len(str) + 1 ELSE CHOOSE i \in hits : \A j \in hits : i <= j

\* The longest prefix of str made of digits.
DigitPrefix(str) ==
    LET stop == {i \in 1..Len(str) : str[i] \notin Range(DigitChars)}
    IN IF stop = {} THEN str
       ELSE SubSeq(str, 1, (CHOOSE i \in stop : \A j \in stop : i <= j) - 1)

\* The number written by a sequence of digits.
RECURSIVE DigitsValue(_)
DigitsValue(ds) ==
    IF ds = <<>> THEN 0
    ELSE 10 * DigitsValue(SubSeq(ds, 1, Len(ds) - 1)) + DigitVal(ds[Len(ds)])

\* parseInt(str, 10): an optional sign, then the digits the string starts
\* with; NaN without any.
ParseInt(str) ==
    LET number(negative, ds) ==
            IF ds = <<>> THEN [nan |-> TRUE, val |-> 0]
            ELSE [nan |-> FALSE, val |-> IF negative THEN 0 - DigitsValue(ds)
                                         ELSE DigitsValue(ds)]
    IN IF str # <<>> /\ Head(str) \in {"+", "-"}
       THEN number(Head(str) = "-", DigitPrefix(Tail(str)))
       ELSE number(FALSE, DigitPrefix(str))

\* a || b for numbers: NaN and 0 are falsy.
NumOr(a, b) == IF a.nan \/ a.val = 0 THEN b ELSE a

\* str.split(sep)[0] for a set of separator characters.
FirstPiece(str, seps) == SubSeq(str, 1, IndexOfAny(str, seps) - 1)

\* str without leading slashes: replace(/^\/+/, "").
RECURSIVE StripSlashes(_)
StripSlashes(str) ==
    IF str # <<>> /\ Head(str) = "/" THEN StripSlashes(Tail(str)) ELSE str

Https == <<"h", "t", "t", "p", "s", ":", "/", "/">>

\* str cut in two before its first character that is in cs.
SplitAt(str, cs) ==
    LET at(i) == [head |-> SubSeq(str, 1, i - 1), tail |-> SubSeq(str, i, Len(str))]
    IN at(IndexOfAny(str, cs))

\* new URL(input) for http(s) URLs: hostname (in lower case), pathname,
\* query (without "?") and hash (with "#", empty for an empty fragment).
\* Anything else makes the constructor throw (ok = FALSE).
ParseURL(input) ==
    LET url(host, path, rest) ==
            IF host = <<>>
            THEN [ok |-> FALSE, hostname |-> <<>>, pathname |-> <<>>, query |-> <<>>,
                  hash |-> <<>>]
            ELSE [ok |-> TRUE,
                  hostname |-> [i \in 1..Len(host) |-> ToLower(host[i])],
                  pathname |-> IF path = <<>> THEN <<"/">> ELSE path,
                  query |-> IF rest.head = <<>> THEN <<>> ELSE Tail(rest.head),
                  hash |-> IF Len(rest.tail) <= 1 THEN <<>> ELSE rest.tail]
        afterPath(host, p) == url(host, p.head, SplitAt(p.tail, {"#"}))
        afterHost(h) == afterPath(h.head, SplitAt(h.tail, {"?", "#"}))
    IN afterHost(SplitAt(IF StartsWith(input, Https) THEN Drop(input, Len(Https))
                         ELSE IF StartsWith(input, <<"h", "t", "t", "p", ":", "/", "/">>)
                         THEN Drop(input, 7)
                         ELSE <<>>,
                         {"/", "?", "#"}))

\* u.searchParams.get(name): the value of the first pair with that name.
RECURSIVE SearchGet(_, _)
SearchGet(query, name) ==
    LET pair(kv, rest) ==
            IF kv.head = name /\ (kv.head # <<>> \/ kv.tail # <<>>)
            THEN [found |-> TRUE, value |-> IF kv.tail = <<>> THEN <<>> ELSE Tail(kv.tail)]
            ELSE SearchGet(IF rest = <<>> THEN <<>> ELSE Tail(rest), name)
        first(q) == pair(SplitAt(q.head, {"="}), q.tail)
    IN IF query = <<>> THEN [found |-> FALSE, value |-> <<>>]
       ELSE first(SplitAt(query, {"&"}))

\* a || b for strings: null and "" are falsy.
ParamOr(p, other) == IF p.found /\ p.value # <<>> THEN p.value ELSE other

\* Does the whole of str match (?:(\d+)h)?(?:(\d+)m)?(?:(\d+)s?)? with the
\* i flag, the groups before `stage` being over?  Gives the captures.
RECURSIVE MatchHMS(_, _, _)
MatchHMS(str, stage, caps) ==
    LET unit(ds, c, rest) ==
            IF ds = <<>> THEN [caps EXCEPT !.ok = FALSE]
            ELSE IF c = "" THEN [caps EXCEPT !.ok = TRUE, !.s = ds]
            ELSE IF c = "h" /\ stage <= 1 THEN MatchHMS(rest, 2, [caps EXCEPT !.h = ds])
            ELSE IF c = "m" /\ stage <= 2 THEN MatchHMS(rest, 3, [caps EXCEPT !.m = ds])
            ELSE IF c = "s" /\ rest = <<>> THEN [caps EXCEPT !.ok = TRUE, !.s = ds]
            ELSE [caps EXCEPT !.ok = FALSE]
        after(ds, rest) ==
            IF rest = <<>> THEN unit(ds, "", <<>>)
            ELSE unit(ds, ToLower(Head(rest)), Tail(rest))
        digits(ds) == after(ds, Drop(str, Len(ds)))
    IN IF str = <<>> THEN [caps EXCEPT !.ok = TRUE] ELSE digits(DigitPrefix(str))

\* regex.exec(raw): the match that starts leftmost; the pattern ends in $
\* and can match the empty string, so there is always one.
ExecHMS(raw) ==
    LET leftmost(ms) ==
            ms[CHOOSE p \in DOMAIN ms : ms[p].ok /\ \A q \in DOMAIN ms : q < p => ~ms[q].ok]
    IN leftmost([p \in 0..Len(raw) |->
                  MatchHMS(Drop(raw, p), 1,
                           [ok |-> FALSE, h |-> <<>>, m |-> <<>>, s |-> <<>>])])

\* Variant of GetStart that reads plain seconds only.
GetStartSecondsOnly(u) ==
    LET raw == ParamOr(SearchGet(u.query, <<"t">>), <<>>)
    IN NumOr(ParseInt(raw), [nan |-> FALSE, val |-> 0]).val

\* getStart(u)
GetStart(u) ==
    LET int(g) == ParseInt(IF g = <<>> THEN <<"0">> ELSE g)
        seconds(m, n) ==
            IF m.ok
            THEN int(m.h).val * 3600 + int(m.m).val * 60
                 + NumOr(int(m.s), NumOr(n, [nan |-> FALSE, val |-> 0])).val
            ELSE IF n.nan THEN 0 ELSE n.val
        start(raw) == IF raw = <<>> THEN 0 ELSE seconds(ExecHMS(raw), ParseInt(raw))
    IN start(ParamOr(SearchGet(u.query, <<"t">>),
                     ParamOr(SearchGet(u.query, <<"s", "t", "a", "r", "t">>),
                             IF u.hash = <<>> THEN <<>> ELSE Tail(u.hash))))

\* parseVideo returned null.
NotParsed == [ok |-> FALSE, id |-> <<>>, start |-> 0]

Shorts == <<"/", "s", "h", "o", "r", "t", "s", "/">>

\* parseVideo(input)
ParseVideo(input) ==
    LET found(start, host, path, v) ==
            IF host = <<"y", "o", "u", "t", "u", ".", "b", "e">>
            THEN [ok |-> TRUE, id |-> FirstPiece(StripSlashes(path), {"/", "?", "#"}),
                  start |-> start]
            ELSE IF StartsWith(path, Shorts)
            THEN [ok |-> TRUE, id |-> FirstPiece(Drop(path, Len(Shorts)), {"/", "?", "#"}),
                  start |-> start]
            ELSE IF v.found /\ v.value # <<>>
            THEN [ok |-> TRUE, id |-> v.value, start |-> start]
            ELSE NotParsed
        url(u) ==
            IF ~u.ok THEN NotParsed
            ELSE found(GetStart(u),
                       IF StartsWith(u.hostname, <<"w", "w", "w", ".">>)
                       THEN Drop(u.hostname, 4) ELSE u.hostname,
                       u.pathname,
                       SearchGet(u.query, <<"v">>))
    IN IF Len(input) >= 10 /\ Len(input) <= 12
          /\ \A i \in 1..Len(input) : IsWordOrDash(input[i])
       THEN [ok |-> TRUE, id |-> input, start |-> 0]
       ELSE url(ParseURL(input))

\* An address given to the iframe or to the fallback link: nothing, the
\* string as it came, or one built from an id (start left out when it is 0).
NoAddress == [form |-> "empty", text |-> <<>>, id |-> <<>>, start |-> 0, autoplay |-> 0]
RawAddress(text) == [NoAddress EXCEPT !.form = "raw", !.text = text]

\* buildEmbed(id, start)
BuildEmbed(id, start, autoplay) ==
    [form |-> "embed", text |-> <<>>, id |-> id, start |-> start, autoplay |-> autoplay]

\* buildWatch(id, start)
BuildWatch(id, start) ==
    [form |-> "watch", text |-> <<>>, id |-> id, start |-> start, autoplay |-> 0]

\* open(videoInput) on the modal v = [src, href, hidden, lock, parsed].
Open(v, videoInput, hasExtLink, prefersReduced) ==
    LET show(parsed) ==
            [src |-> IF ~parsed.ok THEN RawAddress(videoInput)
                     ELSE BuildEmbed(parsed.id, parsed.start,
                                     IF prefersReduced THEN 0 ELSE 1),
             href |-> IF ~hasExtLink THEN v.href
                      ELSE IF ~parsed.ok THEN RawAddress(videoInput)
                      ELSE BuildWatch(parsed.id, parsed.start),
             hidden |-> FALSE,
             lock |-> TRUE,
             parsed |-> parsed]
    IN show(ParseVideo(videoInput))

\* close()
Close(v) == [v EXCEPT !.src = NoAddress, !.hidden = TRUE, !.lock = FALSE]

\* The video modal's DOMContentLoaded handler (script.js:375-495).
VideoReady ==
    /\ ~vReady
    /\ vReady' = TRUE
    /\ vBound' = ({"modal", "iframe"} \subseteq vEls)
    /\ UNCHANGED <<vEls, vReduced, vTrigger, video, vOpens>>
    /\ UNCHANGED <<loaderVars, deckVars, newsVars, indexVars,
                   navVars, fragVars, netVars, contactVars>>

\* A click on the [data-video] element.
VideoTrigger ==
    /\ vBound
    /\ video.hidden
    /\ vOpens < MaxOpens
    /\ IF vTrigger # <<>>
       THEN /\ video' = Open(video, vTrigger, "extLink" \in vEls, vReduced)
            /\ vOpens' = vOpens + 1
       ELSE UNCHANGED <<video, vOpens>>
    /\ UNCHANGED <<vEls, vReduced, vTrigger, vBound, vReady>>
    /\ UNCHANGED <<loaderVars, deckVars, newsVars, indexVars,
                   navVars, fragVars, netVars, contactVars>>

\* A click on a [data-close] element of the modal.
VideoCloseClick ==
    /\ vBound
    /\ ~video.hidden
    /\ video' = Close(video)
    /\ UNCHANGED <<vEls, vReduced, vTrigger, vBound, vReady, vOpens>>
    /\ UNCHANGED <<loaderVars, deckVars, newsVars, indexVars,
                   navVars, fragVars, netVars, contactVars>>

\* A key is pressed: Escape closes an open modal.
VideoKeydown(key) ==
    /\ vBound
    /\ video' = IF ~video.hidden /\ key = "Escape" THEN Close(video) ELSE video
    /\ UNCHANGED <<vEls, vReduced, vTrigger, vBound, vReady, vOpens>>
    /\ UNCHANGED <<loaderVars, deckVars, newsVars, indexVars,
                   navVars, fragVars, netVars, contactVars>>

\* The data-video values looked at: the four of the documentation, and ids,
\* share, watch and shorts links and another site's link with a timestamp
\* of up to MaxStamp characters given as ?t=, as start= or as the fragment.
IdDQ == <<"d", "Q", "w", "4", "w", "9", "W", "g", "X", "c", "Q">>
YoutuBe == Https \o <<"y", "o", "u", "t", "u", ".", "b", "e", "/">>
WatchUrl == Https \o <<"w", "w", "w", ".", "y", "o", "u", "t", "u", "b", "e", ".", "c", "o",
                       "m", "/", "w", "a", "t", "c", "h", "?", "v", "=">>
ShortsUrl == Https \o <<"w", "w", "w", ".", "y", "o", "u", "t", "u", "b", "e", ".", "c", "o",
                        "m">> \o Shorts
NotAVideo == Https \o <<"e", "x", "a", "m", "p", "l", "e", ".", "c", "o", "m", "/", "n", "o",
                        "t", "-", "a", "-", "v", "i", "d", "e", "o">>
Stamps == UNION {[1..n -> {"1", "5", "h", "m", "s"}] : n \in 0..MaxStamp}
             \cup {<<"9", "0">>, <<"1", "m", "5", "s">>}
StampedOn(base, hasQuery) ==
    {base \o (IF hasQuery THEN <<"&">> ELSE <<"?">>) \o <<"t", "=">> \o st : st \in Stamps}
    \cup {base \o (IF hasQuery THEN <<"&">> ELSE <<"?">>) \o <<"s", "t", "a", "r", "t", "=">> \o st
            : st \in Stamps}
    \cup {base \o <<"#">> \o st : st \in Stamps}
VideoInputs ==
    {<<>>, IdDQ, <<"a", "b", "c">>, NotAVideo}
    \cup StampedOn(YoutuBe \o IdDQ, FALSE)
    \cup StampedOn(WatchUrl \o IdDQ, TRUE)
    \cup StampedOn(ShortsUrl \o IdDQ, FALSE)
    \cup StampedOn(NotAVideo, FALSE)

VideoInit ==
    /\ PageQuiet
    /\ NavQuiet
    /\ FragQuiet
    /\ NetQuiet
    /\ ContactQuiet
    /\ IndexQuiet
    /\ NewsQuiet
    /\ vEls \in SUBSET {"modal", "iframe", "extLink"}
    /\ vReduced \in BOOLEAN
    /\ vTrigger \in VideoInputs
    /\ vBound = FALSE
    /\ vReady = FALSE
    /\ video = [src |-> NoAddress, href |-> NoAddress, hidden |-> TRUE, lock |-> FALSE,
                parsed |-> NotParsed]
    /\ vOpens = 0

VideoNext ==
    \/ VideoReady
    \/ VideoTrigger
    \/ VideoCloseClick
    \/ \E key \in {"Escape", "Enter"} : VideoKeydown(key)

VideoSpec == VideoInit /\ [][VideoNext]_vars

(* --------------------------- carousel index ---------------------------- *)

\* The % of JavaScript: the remainder has the sign of the dividend.
JsRem(a, m) == IF a >= 0 THEN a % m ELSE 0 - ((0 - a) % m)

\* Variant of Mod that is the plain remainder n % m.
ModRemainder(n, m) == JsRem(n, m)

\* mod(n, m) (deck-carousel.js:202).
Mod(n, m) == JsRem(JsRem(n, m) + m, m)

\* render() (deck-carousel.js:70-113), as far as aria-hidden goes:
\* String(i !== current) on every card.
Render(c, n) ==
    [c EXCEPT !.aria = [i \in 0..(n - 1) |-> IF i # c.current THEN "true" ELSE "false"]]

\* goTo(index), and go(delta) = goTo(current + delta).
GoTo(c, index, n) == Render([c EXCEPT !.current = Mod(index, n)], n)

\* openLightbox(index), closeLightbox() and lightboxStep(delta) on a
\* carousel whose cards hold an image.
OpenLightbox(c, index, n) ==
    [c EXCEPT !.lightboxIndex = Mod(index, n), !.lbHidden = FALSE]

CloseLightbox(c) == [c EXCEPT !.lbHidden = TRUE]

LightboxStep(c, delta, n) ==
    Render([c EXCEPT !.lightboxIndex = Mod(c.lightboxIndex + delta, n),
                     !.current = Mod(c.lightboxIndex + delta, n)], n)

\* The keydown listener of the root (deck-carousel.js:169-173).
RootKeydownHandler(c, key, n) ==
    IF ~c.lbHidden THEN c
    ELSE IF key = "ArrowLeft" THEN GoTo(c, c.current - 1, n)
    ELSE IF key = "ArrowRight" THEN GoTo(c, c.current + 1, n)
    ELSE c

\* The keydown listener of the lightbox (deck-carousel.js:186-190).
LbKeydownHandler(c, key, n) ==
    IF key = "Escape" THEN CloseLightbox(c)
    ELSE IF key = "ArrowLeft" THEN LightboxStep(c, -1, n)
    ELSE IF key = "ArrowRight" THEN LightboxStep(c, 1, n)
    ELSE c

\* The callback the touchend listener of makeSwipeable calls for a touch
\* that moved by (dx, dy) (deck-carousel.js:217-228).  The angle is
\* |atan2(dy, dx)| in degrees, which is below 25 only for dx > 0 and
\* |dy| < dx * tan(25 deg); tan(25 deg) is 0.4663...
SwipeCallback(dx, dy) ==
    LET absdx == IF dx < 0 THEN 0 - dx ELSE dx
        absdy == IF dy < 0 THEN 0 - dy ELSE dy
    IN IF absdx > 30 /\ dx > 0 /\ absdy * 10000 < 4663 * dx
       THEN (IF dx < 0 THEN "onLeft" ELSE "onRight")
       ELSE "none"

\* What the user did last, with the state it was done in.
Did(kind) == [kind |-> kind, current |-> carousel.current,
              lightboxIndex |-> carousel.lightboxIndex, lbHidden |-> carousel.lbHidden]

\* initDeckCarousel(root) on a root with its track, cards and lightbox
\* (deck-carousel.js:36-198): the index state and the first paint.
DeckReady ==
    /\ ixOp.kind = "none"
    /\ carousel' = Render([current |-> cardCount \div 2, lightboxIndex |-> 0,
                           lbHidden |-> TRUE, aria |-> <<>>], cardCount)
    /\ ixOp' = Did("init")
    /\ UNCHANGED <<cardCount, ixEls>>
    /\ UNCHANGED <<loaderVars, deckVars, newsVars, navVars, fragVars, netVars,
                   contactVars, videoVars>>

\* A click on .deck-nav--prev (delta -1) or .deck-nav--next (delta 1);
\* render() disables both for a single card.
ArrowClick(delta) ==
    /\ ixOp.kind # "none"
    /\ (IF delta < 0 THEN "prev" ELSE "next") \in ixEls
    /\ cardCount > 1
    /\ carousel' = GoTo(carousel, carousel.current + delta, cardCount)
    /\ ixOp' = Did(IF delta < 0 THEN "prevClick" ELSE "nextClick")
    /\ UNCHANGED <<cardCount, ixEls>>
    /\ UNCHANGED <<loaderVars, deckVars, newsVars, navVars, fragVars, netVars,
                   contactVars, videoVars>>

\* A key pressed with the focus in the deck, outside the lightbox.
RootKeydown(key) ==
    /\ ixOp.kind # "none"
    /\ carousel' = RootKeydownHandler(carousel, key, cardCount)
    /\ ixOp' = Did("deck" \o key)
    /\ UNCHANGED <<cardCount, ixEls>>
    /\ UNCHANGED <<loaderVars, deckVars, newsVars, navVars, fragVars, netVars,
                   contactVars, videoVars>>

\* A click, Enter or Space on the .deck-card__hit of card i
\* (deck-carousel.js:152-162).
HitActivate(i) ==
    /\ ixOp.kind # "none"
    /\ "hit" \in ixEls
    /\ i \in 0..(cardCount - 1)
    /\ carousel' = OpenLightbox(carousel, i, cardCount)
    /\ ixOp' = Did("open")
    /\ UNCHANGED <<cardCount, ixEls>>
    /\ UNCHANGED <<loaderVars, deckVars, newsVars, navVars, fragVars, netVars,
                   contactVars, videoVars>>

\* A click on .deck-lightbox__prev or .deck-lightbox__next.
LbStepClick(delta) ==
    /\ ~carousel.lbHidden
    /\ carousel' = LightboxStep(carousel, delta, cardCount)
    /\ ixOp' = Did(IF delta < 0 THEN "lbPrevClick" ELSE "lbNextClick")
    /\ UNCHANGED <<cardCount, ixEls>>
    /\ UNCHANGED <<loaderVars, deckVars, newsVars, navVars, fragVars, netVars,
                   contactVars, videoVars>>

\* A click on .deck-lightbox__close or on the lightbox's backdrop.
LbCloseClick ==
    /\ ~carousel.lbHidden
    /\ carousel' = CloseLightbox(carousel)
    /\ ixOp' = Did("lbClose")
    /\ UNCHANGED <<cardCount, ixEls>>
    /\ UNCHANGED <<loaderVars, deckVars, newsVars, navVars, fragVars, netVars,
                   contactVars, videoVars>>

\* A key pressed inside the open lightbox: its own listener, then, the
\* event bubbling, the root's.
LbKeydown(key) ==
    /\ ~carousel.lbHidden
    /\ carousel' = RootKeydownHandler(LbKeydownHandler(carousel, key, cardCount), key,
                                      cardCount)
    /\ ixOp' = Did("lb" \o key)
    /\ UNCHANGED <<cardCount, ixEls>>
    /\ UNCHANGED <<loaderVars, deckVars, newsVars, navVars, fragVars, netVars,
                   contactVars, videoVars>>

\* A touch on the track that moved by (dx, dy): onLeft is go(1), onRight
\* is go(-1) (deck-carousel.js:193).
TrackSwipe(dx, dy) ==
    /\ ixOp.kind # "none"
    /\ carousel' = CASE SwipeCallback(dx, dy) = "onLeft" ->
                          GoTo(carousel, carousel.current + 1, cardCount)
                     [] SwipeCallback(dx, dy) = "onRight" ->
                          GoTo(carousel, carousel.current - 1, cardCount)
                     [] OTHER -> carousel
    /\ ixOp' = Did("trackSwipe")
    /\ UNCHANGED <<cardCount, ixEls>>
    /\ UNCHANGED <<loaderVars, deckVars, newsVars, navVars, fragVars, netVars,
                   contactVars, videoVars>>

\* A touch on the open lightbox (deck-carousel.js:194).
LbSwipe(dx, dy) ==
    /\ ~carousel.lbHidden
    /\ carousel' = CASE SwipeCallback(dx, dy) = "onLeft" ->
                          LightboxStep(carousel, 1, cardCount)
                     [] SwipeCallback(dx, dy) = "onRight" ->
                          LightboxStep(carousel, -1, cardCount)
                     [] OTHER -> carousel
    /\ ixOp' = Did(IF SwipeCallback(dx, dy) = "none" THEN "lbTouch" ELSE "lbSwipe")
    /\ UNCHANGED <<cardCount, ixEls>>
    /\ UNCHANGED <<loaderVars, deckVars, newsVars, navVars, fragVars, netVars,
                   contactVars, videoVars>>

IndexInit ==
    /\ PageQuiet
    /\ NavQuiet
    /\ FragQuiet
    /\ NetQuiet
    /\ ContactQuiet
    /\ VideoQuiet
    /\ NewsQuiet
    /\ cardCount \in 1..MaxDeckCards
    /\ ixEls \in SUBSET {"prev", "next", "hit"}
    /\ carousel = [current |-> 0, lightboxIndex |-> 0, lbHidden |-> TRUE, aria |-> <<>>]
    /\ ixOp = [kind |-> "none", current |-> 0, lightboxIndex |-> 0, lbHidden |-> TRUE]

IndexNext ==
    \/ DeckReady
    \/ \E delta \in {-1, 1} : ArrowClick(delta)
    \/ \E key \in {"ArrowLeft", "ArrowRight", "Enter"} : RootKeydown(key)
    \/ \E i \in 0..(MaxDeckCards - 1) : HitActivate(i)
    \/ \E delta \in {-1, 1} : LbStepClick(delta)
    \/ LbCloseClick
    \/ \E key \in {"ArrowLeft", "ArrowRight", "Escape"} : LbKeydown(key)
    \/ \E dx \in {-100, -20, 100}, dy \in {0, 80} : TrackSwipe(dx, dy)
    \/ \E dx \in {-100, -20, 100}, dy \in {0, 80} : LbSwipe(dx, dy)

IndexSpec == IndexInit /\ [][IndexNext]_vars

(* ----------------------------- newsletter ------------------------------ *)

\* Variant of MlGuard that does not look at form.__mlBound.
MlGuardOff(form) == FALSE

\* if (form.__mlBound) return true
MlGuard(form) == form.bound

\* wireUp(document.getElementById("mlb2-30606205")) on the document d and
\* the form elements fs (part_000:11-68).
WireUp(d, fs) ==
    IF ~d.root \/ d.form = 0 THEN [ok |-> FALSE, forms |-> fs]
    ELSE IF MlGuard(fs[d.form]) THEN [ok |-> TRUE, forms |-> fs]
    ELSE [ok |-> TRUE,
          forms |-> [fs EXCEPT ![d.form] = [bound |-> TRUE, listeners |-> @.listeners + 1]]]

\* The DOMContentLoaded listeners of the copies k..nlScripts, in order
\* (part_000:74-82): a copy that cannot wire the form starts an observer.
RECURSIVE RunReady(_, _, _, _)
RunReady(k, d, fs, obs) ==
    IF k > Len(obs) THEN [forms |-> fs, obs |-> obs]
    ELSE RunReady(k + 1, d, WireUp(d, fs).forms,
                  [obs EXCEPT ![k] = [state |-> IF WireUp(d, fs).ok THEN "none"
                                                ELSE "observing",
                                      pending |-> FALSE,
                                      wired |-> WireUp(d, fs).ok,
                                      late |-> FALSE]])

\* The document fires DOMContentLoaded.
NewsReady ==
    /\ ~nlReady
    /\ nlReady' = TRUE
    /\ nlForms' = RunReady(1, nlDom, nlForms, nlObs).forms
    /\ nlObs' = RunReady(1, nlDom, nlForms, nlObs).obs
    /\ UNCHANGED <<nlScripts, nlDom, nlSub>>
    /\ UNCHANGED <<loaderVars, deckVars, indexVars, navVars, fragVars, netVars, contactVars,
                   videoVars>>

\* Nodes are added under document.body: the embed's root ("root"), a form in
\* it, a new one if there was one ("form"), or something else ("other").
\* Every observer that is observing gets a record.
NewsMutation(what) ==
    /\ what = "root" => ~nlDom.root
    /\ what = "form" => nlDom.root /\ nlDom.form < MaxForms
    /\ nlDom' = CASE what = "root" -> [nlDom EXCEPT !.root = TRUE]
                  [] what = "form" -> [nlDom EXCEPT !.form = @ + 1]
                  [] OTHER -> nlDom
    /\ nlObs' = [k \in DOMAIN nlObs |->
                   [nlObs[k] EXCEPT !.pending = @ \/ nlObs[k].state = "observing"]]
    /\ what = "other" => nlObs' # nlObs
    /\ UNCHANGED <<nlScripts, nlReady, nlForms, nlSub>>
    /\ UNCHANGED <<loaderVars, deckVars, indexVars, navVars, fragVars, netVars, contactVars,
                   videoVars>>

\* What the observer's callback leaves of the observer: mo.disconnect()
\* after a wiring that succeeded.
ObserverAfter(ok) == IF ok THEN "disconnected" ELSE "observing"

\* The callback of copy k's observer (part_000:78-80).
NewsCallback(k) ==
    /\ k \in DOMAIN nlObs
    /\ nlObs[k].pending
    /\ nlForms' = WireUp(nlDom, nlForms).forms
    /\ nlObs' = [nlObs EXCEPT ![k] = [state |-> ObserverAfter(WireUp(nlDom, nlForms).ok),
                                      pending |-> FALSE,
                                      wired |-> WireUp(nlDom, nlForms).ok,
                                      late |-> nlObs[k].wired]]
    /\ UNCHANGED <<nlScripts, nlReady, nlDom, nlSub>>
    /\ UNCHANGED <<loaderVars, deckVars, indexVars, navVars, fragVars, netVars, contactVars,
                   videoVars>>

\* The user submits the form that is in the document: each submit listener
\* checks the address and the captcha token and, with both, disables the
\* button and sends the request (part_000:37-65).
NewsSubmit(emailOk, token) ==
    /\ nlDom.form # 0
    /\ nlForms[nlDom.form].listeners > 0
    /\ nlSub.submits < MaxNewsSubmits
    /\ nlSub' = IF ~emailOk
                THEN [nlSub EXCEPT !.submits = @ + 1,
                                   !.runs = nlForms[nlDom.form].listeners,
                                   !.invalid = TRUE]
                ELSE IF ~token
                THEN [nlSub EXCEPT !.submits = @ + 1,
                                   !.runs = nlForms[nlDom.form].listeners]
                ELSE [nlSub EXCEPT !.submits = @ + 1,
                                   !.runs = nlForms[nlDom.form].listeners,
                                   !.disabled = TRUE,
                                   !.requests = @ + nlForms[nlDom.form].listeners]
    /\ UNCHANGED <<nlScripts, nlReady, nlDom, nlForms, nlObs>>
    /\ UNCHANGED <<loaderVars, deckVars, indexVars, navVars, fragVars, netVars, contactVars,
                   videoVars>>

\* A request settles, either way: .catch(() => {}).finally(showSuccess).
NewsFetchSettle ==
    /\ nlSub.requests > 0
    /\ nlSub' = [nlSub EXCEPT !.requests = @ - 1, !.success = TRUE]
    /\ UNCHANGED <<nlScripts, nlReady, nlDom, nlForms, nlObs>>
    /\ UNCHANGED <<loaderVars, deckVars, indexVars, navVars, fragVars, netVars, contactVars,
                   videoVars>>

NewsInit ==
    /\ PageQuiet
    /\ NavQuiet
    /\ FragQuiet
    /\ NetQuiet
    /\ ContactQuiet
    /\ VideoQuiet
    /\ IndexQuiet
    /\ nlScripts \in 1..MaxNewsScripts
    /\ nlReady = FALSE
    /\ nlDom \in {[root |-> FALSE, form |-> 0], [root |-> TRUE, form |-> 0],
                  [root |-> TRUE, form |-> 1]}
    /\ nlForms = [f \in 1..MaxForms |-> [bound |-> FALSE, listeners |-> 0]]
    /\ nlObs = [k \in 1..nlScripts |->
                  [state |-> "idle", pending |-> FALSE, wired |-> FALSE, late |-> FALSE]]
    /\ nlSub = [submits |-> 0, runs |-> 0, invalid |-> FALSE, disabled |-> FALSE,
                requests |-> 0, success |-> FALSE]

NewsNext ==
    \/ NewsReady
    \/ \E what \in {"root", "form", "other"} : NewsMutation(what)
    \/ \E k \in 1..MaxNewsScripts : NewsCallback(k)
    \/ \E emailOk \in BOOLEAN, token \in BOOLEAN : NewsSubmit(emailOk, token)
    \/ NewsFetchSettle

NewsSpec == NewsInit /\ [][NewsNext]_vars

\* C11: however often the mobile-nav module body is evaluated there is one
\* set of delegated listeners, and whichever came first, the module or the
\* navbar, one click on #navToggle with the module loaded switches the menu
\* between closed and open exactly once.
C11_NavBoundOnce ==
    /\ navSets <= 1
    /\ navRuns >= 1 => navSets = 1 /\ navBound
    /\ (navEvent.kind = "toggle" /\ navEvent.sets >= 1 /\ {"btn", "menu"} \subseteq navEls)
          => navEvent.changes = 1

\* C11 witness: the module body ran twice and a click on the toggle opened
\* the menu.
C11_Witness ==
    /\ navRuns = 2
    /\ navEvent.kind = "toggle"
    /\ navEvent.changes = 1
    /\ nav.expanded /\ ~nav.menuHidden

\* The symbols of all the text inside a sequence of nodes.
RECURSIVE AllText(_)
AllText(dom) ==
    IF dom = <<>> THEN {} ELSE Range(Head(dom).text) \cup AllText(Tail(dom))

\* C12: for every placeholder, whatever its id, the injected content holds
\* no raw {{title}} or {{subtitle}}, and where the fragment had a token it
\* holds the declared value, or the default when none is declared.
C12_SubstitutionComplete ==
    fragDone =>
        /\ TitleToken \notin AllText(fragDom)
        /\ SubtitleToken \notin AllText(fragDom)
        /\ \A i \in 1..Len(fragHtml) :
              fragHtml[i].text = <<"S">> =>
                  fragDom[i].text = OrDefault(fragEl.subtitle, DefaultSubtitle)

C14_HungFetchIsolated ==
    /\ [](\A p \in hung : readyState # "interactive" => classes[p] = {"is-loading"})
    /\ \A q \in 1..MaxPlaceholders :
          (q \in Placeholders /\ q \notin hung) ~> (q \in Placeholders /\ Ready(q))

\* C14 witness: the first fetch hangs, the second placeholder is ready.
C14_Witness ==
    /\ nodes >= 2
    /\ hung = {1}
    /\ classes[1] = {"is-loading"}
    /\ Ready(2)

\* Number of times step x occurs in the sequence sq.
RECURSIVE Count(_, _)
Count(sq, x) ==
    IF sq = <<>> THEN 0 ELSE (IF Head(sq) = x THEN 1 ELSE 0) + Count(Tail(sq), x)

\* C15: once the loader has run, every placeholder has been marked loading
\* and has had exactly one fetch issued, so that all fetches are out before
\* any response is processed; and the loader goes on only when the tasks of
\* all placeholders are over.
C15_AllFetchesIssuedFirst ==
    /\ readyState = "interactive" => \A p \in Placeholders : Count(steps[p], "fetch") = 0
    /\ readyState # "interactive" =>
          \A p \in Placeholders :
              /\ Count(steps[p], "fetch") = 1
              /\ Count(steps[p], "loading") = 1
              /\ steps[p][1] = "loading" /\ steps[p][2] = "fetch"
              /\ task[p] # "pending"
    /\ (\E p \in Placeholders : task[p] \notin {"pending", "fetching"})
          => \A q \in Placeholders : task[q] # "pending"
    /\ loader = "done" => \A p \in Placeholders : AwaitsOver(p)
    /\ (loader = "awaiting" /\ \E p \in Placeholders : ~AwaitsOver(p))
          => "loaderContinue" \notin Range(microtasks)

\* C15 witness: one response is being processed while the other fetch is
\* still in flight, and the loader is suspended.
C15_Witness ==
    /\ nodes = 2
    /\ task[1] = "fetching"
    /\ task[2] = "reading"
    /\ loader = "awaiting"

\* C17: an error thrown while one carousel root is initialized stays with
\* that root: every root that is in the page when a discovery pass runs has
\* had initDeckCarousel called on it, whatever happened to the roots before
\* it.
C17_ErrorContained ==
    \A r \in Roots :
        (readyState # "interactive" /\ roots[r].kind = "page") => deck[r].calls >= 1

\* The handler calls that have not reached their finally block.
Running == {i \in 1..Len(sub) : sub[i].pc # "done"}

\* C18: the contact form has at most one request in flight: at most one
\* handler call is between locking and its finally block, the form is locked
\* exactly while there is one, and no request is issued without the lock.
C18_OneRequestInFlight ==
    /\ Cardinality(Running) <= 1
    /\ busy <=> Running # {}
    /\ busy => cDisabled
    /\ Len(sub) <= cSubmits

\* C18 witness: a second submit event came while the request of the first
\* was in flight, and issued nothing.
C18_Witness ==
    /\ Len(sub) = 1
    /\ sub[1].pc = "fetch"
    /\ cSubmits = 2
    /\ busy

\* C19: every submission that passed validation and locked the form
\* eventually ends with the form unlocked, the button enabled and its label
\* as it was before, whatever the network does.
C19_AlwaysUnlocks ==
    \A i \in 1..MaxSubmits :
        (i <= Len(sub)) ~>
            (/\ i <= Len(sub)
             /\ sub[i].pc = "done"
             /\ ~busy
             /\ ~cDisabled
             /\ cLabel = sub[i].originalText)

\* The message the claim gives to each cause.
ClaimedMessage(s) ==
    CASE s.cause = "abort"   -> [msg |-> "timeout", detail |-> NoDetail]
      [] s.cause = "network" -> [msg |-> "network", detail |-> NoDetail]
      [] s.cause = "ok"      -> [msg |-> "success", detail |-> NoDetail]
      [] OTHER ->
           [msg |-> "failed",
            detail |-> IF s.body.kind = "json" THEN
                          CASE s.body.code = "invalid_email" ->
                                 [kind |-> "invalidEmail", len |-> 0]
                            [] s.body.code = "validation_failed" ->
                                 [kind |-> "validation", len |-> 0]
                            [] s.body.code \in {"smtp_error", "smtp_unavailable",
                                                "smtp_auth_failed"} ->
                                 [kind |-> "smtp", len |-> 0]
                            [] OTHER -> IF s.body.message
                                        THEN [kind |-> "message", len |-> 0]
                                        ELSE NoDetail
                       ELSE IF s.body.len = 0 THEN NoDetail
                       ELSE [kind |-> "text",
                             len |-> IF s.body.len > 200 THEN 200 ELSE s.body.len]]

\* C20: every ended submission showed the message of its cause: timed out
\* for the abort, network error for another rejection, the failure message
\* with the detail mapped from the code, the message or the first 200
\* characters of a text body for a non-2xx response, success and a reset form
\* for a 2xx response.
C20_MessagePerCause ==
    \A i \in 1..Len(sub) :
        sub[i].pc = "done" =>
            /\ sub[i].shown = ClaimedMessage(sub[i])
            /\ sub[i].cause = "ok" => sub[i].reset

\* C16: once a trigger has opened the modal, the four documented inputs
\* gave: the bare 11-character id, that id with start 0; the youtu.be link
\* with ?t=90, the id with start 90; the watch URL with fragment #1m5s, the
\* id with start 65; the link that is none of these, no parse at all and the
\* raw string as the iframe's source.
C16_LiteralInputsParsed ==
    vOpens >= 1 =>
        /\ vTrigger = IdDQ =>
              video.parsed = [ok |-> TRUE, id |-> IdDQ, start |-> 0]
        /\ vTrigger = YoutuBe \o IdDQ \o <<"?", "t", "=", "9", "0">> =>
              video.parsed = [ok |-> TRUE, id |-> IdDQ, start |-> 90]
        /\ vTrigger = WatchUrl \o IdDQ \o <<"#", "1", "m", "5", "s">> =>
              video.parsed = [ok |-> TRUE, id |-> IdDQ, start |-> 65]
        /\ vTrigger = NotAVideo =>
              /\ ~video.parsed.ok
              /\ ~video.hidden => video.src = RawAddress(NotAVideo)

\* C16 witness: the watch URL with #1m5s is playing from second 65.
C16_Witness ==
    /\ vTrigger = WatchUrl \o IdDQ \o <<"#", "1", "m", "5", "s">>
    /\ ~video.hidden
    /\ video.src.form = "embed"
    /\ video.src.id = IdDQ
    /\ video.src.start = 65

\* C21: a failure message that has been shown is neither faded nor hidden
\* for as long as it is the status element's message: no timer started by an
\* earlier success message touches it.
C21_FailureStaysVisible ==
    (cStatus.msg # "none" /\ ~cStatus.ok) => (~cStatus.hidden /\ ~cStatus.faded)

\* C22: in every state of the mobile nav, whatever was clicked, pressed or
\* scrolled since the menu was closed, aria-expanded is "true" exactly when
\* the menu panel is not hidden, exactly when the backdrop, if the navbar has
\* one, is not hidden, and exactly when the document root carries
\* overflow-hidden.
C22_NavConsistent ==
    /\ nav.expanded = ~nav.menuHidden
    /\ "backdrop" \in navEls => nav.expanded = ~nav.backdropHidden
    /\ nav.expanded = nav.lock

\* C22 witness: an Escape press closed a menu that has a backdrop, after a
\* toggle click had opened it.
C22_Witness ==
    /\ "backdrop" \in navEls
    /\ navEvent.kind = "Escape"
    /\ navEvent.changes = 1
    /\ nav = NavClosed

\* C23: with the module loaded, one dispatched event takes the menu where
\* the claim says: a toggle click flips it once; from an open menu a backdrop
\* click, an outside click, a menu-link click, Escape and a scroll close it
\* and a click elsewhere in the menu leaves it open; without the toggle or
\* without the panel nothing changes.
C23_NavTransitions ==
    [][(navSets = 1 /\ (nav' # nav \/ navEvent' # navEvent)) =>
          /\ (navEvent'.kind = "toggle" /\ {"btn", "menu"} \subseteq GetEls(navPresent, navEls))
                => (nav'.expanded = ~nav.expanded /\ navEvent'.changes = 1)
          /\ (nav.expanded /\ navEvent'.kind \in {"backdrop", "outside", "menuLink",
                                                 "Escape", "scroll"})
                => (nav' = NavClosed /\ navEvent'.changes = 1)
          /\ (nav.expanded /\ navEvent'.kind = "menuOther")
                => (nav' = nav /\ navEvent'.changes = 0)
          /\ ~({"btn", "menu"} \subseteq GetEls(navPresent, navEls))
                => (nav' = nav /\ navEvent'.changes = 0)]_vars

\* C23 witness: a click on a link of the open menu closed it.
C23_Witness ==
    /\ navSets = 1
    /\ navEvent.kind = "menuLink"
    /\ navEvent.changes = 1
    /\ nav = NavClosed

ClaimedStamps ==
    {[text |-> <<>>, seconds |-> 0],
     [text |-> <<"5">>, seconds |-> 5],
     [text |-> <<"1", "5">>, seconds |-> 15],
     [text |-> <<"9", "0">>, seconds |-> 90],
     [text |-> <<"5", "s">>, seconds |-> 5],
     [text |-> <<"1", "m", "5", "s">>, seconds |-> 65],
     [text |-> <<"1", "m">>, seconds |-> 60],
     [text |-> <<"5", "m">>, seconds |-> 300],
     [text |-> <<"1", "h">>, seconds |-> 3600],
     [text |-> <<"5", "h">>, seconds |-> 18000]}

\* The places of a YouTube link a timestamp is read from.
StampPlaces ==
    {YoutuBe \o IdDQ \o <<"?", "t", "=">>,
     YoutuBe \o IdDQ \o <<"?", "s", "t", "a", "r", "t", "=">>,
     YoutuBe \o IdDQ \o <<"#">>,
     WatchUrl \o IdDQ \o <<"&", "t", "=">>,
     WatchUrl \o IdDQ \o <<"#">>}

\* C25: once the modal has been opened on a link that carries a timestamp in
\* h/m/s notation, a plain number of seconds or an empty timestamp, the start
\* time parsed is h*3600 + m*60 + s, that number, or 0.
C25_TimestampToSeconds ==
    vOpens >= 1 =>
        \A place \in StampPlaces, st \in ClaimedStamps :
            vTrigger = place \o st.text => video.parsed.start = st.seconds

\* C26: whatever the order of page-ready, insertions and observer callbacks,
\* and however many copies of the script run, no form element has two submit
\* listeners, so that one submit event runs one handler; a form carries
\* __mlBound only if it was in the document and got its listener; and a copy
\* that has wired the form has no observer left observing, no callback
\* pending and makes no further attempt.
C26_NewsletterBoundOnce ==
    /\ \A f \in DOMAIN nlForms :
          /\ nlForms[f].listeners <= 1
          /\ nlForms[f].bound => (nlForms[f].listeners = 1 /\ f <= nlDom.form)
    /\ nlSub.runs <= 1
    /\ \A k \in DOMAIN nlObs :
          /\ ~nlObs[k].late
          /\ nlObs[k].wired => (nlObs[k].state \in {"none", "disconnected"}
                                /\ ~nlObs[k].pending)

\* C26 witness: two copies of the script, the form arrived after page-ready,
\* both observers wired it and disconnected, and a second form that came
\* later was left alone.
C26_Witness ==
    /\ nlScripts = 2
    /\ \A k \in DOMAIN nlObs : nlObs[k].state = "disconnected"
    /\ nlDom.form = 2
    /\ nlForms[1] = [bound |-> TRUE, listeners |-> 1]
    /\ nlForms[2] = [bound |-> FALSE, listeners |-> 0]

\* C27: however often mountGiscus has been called, #giscus_thread holds at
\* most one giscus client script, and on a page without the container there
\* is no script and no widget.
C27_GiscusMountedOnce ==
    /\ giscus.scripts <= 1
    /\ ~giscus.container => (giscus.scripts = 0 /\ ~giscus.iframe)

====
